---- MODULE Spec2Model ----
(***************************************************************************)
(* The companion chat service of ElderCareAI: the socket.io chat handler   *)
(* (backend/ai-chat-service/src/chat-handler.ts), the completion wrapper   *)
(* (backend/ai-chat-service/src/ai-service.ts) and the risk assessor       *)
(* (risk-assessor.ts, src/unnamed/part_003).                               *)
(*                                                                         *)
(* Text is a sequence of one-character strings, so that toLowerCase and    *)
(* String.prototype.includes are computed and not assumed.                 *)
(***************************************************************************)
EXTENDS Naturals, Sequences, FiniteSets

(***************************************************************************)
(* Text primitives                                                         *)
(***************************************************************************)
UpperChars ==
    <<"A","B","C","D","E","F","G","H","I","J","K","L","M",
      "N","O","P","Q","R","S","T","U","V","W","X","Y","Z">>

LowerChars ==
    <<"a","b","c","d","e","f","g","h","i","j","k","l","m",
      "n","o","p","q","r","s","t","u","v","w","x","y","z">>

\* the lower-case form of each upper-case letter
LowerCaseOf ==
    [ch \in { UpperChars[i] : i \in DOMAIN UpperChars } |->
        LowerChars[CHOOSE i \in DOMAIN UpperChars : UpperChars[i] = ch]]

\* String.prototype.toLowerCase on one character
toLowerChar(ch) ==
    IF ch \in DOMAIN LowerCaseOf THEN LowerCaseOf[ch] ELSE ch

\* String.prototype.toLowerCase
toLowerCase(s) == [i \in 1..Len(s) |-> toLowerChar(s[i])]

\* String.prototype.includes: w occurs in s as a contiguous substring
includes(s, w) ==
    \E i \in 0..(Len(s) - Len(w)) : \A j \in 1..Len(w) : s[i + j] = w[j]

\* variant: the first n entries instead of the last n
sliceLast_head(a, n) == SubSeq(a, 1, IF Len(a) < n THEN Len(a) ELSE n)

\* Array.prototype.slice(-n): the last n elements (all of them if fewer)
sliceLast(a, n) ==
    IF Len(a) <= n THEN a ELSE SubSeq(a, Len(a) - n + 1, Len(a))

(***************************************************************************)
(* Risk assessor (risk-assessor.ts)                                        *)
(***************************************************************************)
criticalKeywords ==
    << <<"h","e","l","p">>,
       <<"p","a","i","n">>,
       <<"e","m","e","r","g","e","n","c","y">>,
       <<"f","a","l","l">>,
       <<"b","l","e","e","d","i","n","g">>,
       <<"c","h","e","s","t">>,
       <<"s","u","i","c","i","d","e">>,
       <<"d","i","e">>,
       <<"k","i","l","l">>,
       <<"h","u","r","t">> >>

highKeywords ==
    << <<"s","a","d">>,
       <<"l","o","n","e","l","y">>,
       <<"d","e","p","r","e","s","s","e","d">>,
       <<"s","c","a","r","e","d">>,
       <<"a","f","r","a","i","d">>,
       <<"n","o","b","o","d","y">>,
       <<"a","l","o","n","e">> >>

\* `Critical keyword detected: "${word}"`
CriticalFactor(word) == <<"Critical keyword detected", word>>

\* `Persistent negative mood (${negativeCount} messages)`
NegativeFactor(n) == <<"Persistent negative mood", n>>

CriticalWeight == 50
NegativeWeight == 30
NegativeThreshold == 3
RecentWindow == 20

\* const recent = messages.slice(-20)
recentOf_all(messages) == messages
recentOf(messages) == sliceLast(messages, RecentWindow)

\* const userMessages = recent.filter(m => m.role === 'user')
userMessagesOf(recent) == SelectSeq(recent, LAMBDA m : m.role = "user")

\* the inner loop over criticalKeywords for one message, from keyword k on;
\* acc is the pair (riskScore, factors) the loops update
RECURSIVE criticalScanMessage(_, _, _)
criticalScanMessage(content, k, acc) ==
    IF k > Len(criticalKeywords) THEN acc
    ELSE criticalScanMessage(content, k + 1,
            IF includes(content, criticalKeywords[k])
            THEN [riskScore |-> acc.riskScore + CriticalWeight,
                  factors   |-> Append(acc.factors, CriticalFactor(criticalKeywords[k]))]
            ELSE acc)

\* a scan that reports each keyword once, whatever the number of messages
RECURSIVE criticalScanMessage_dedup(_, _, _)
criticalScanMessage_dedup(content, k, acc) ==
    IF k > Len(criticalKeywords) THEN acc
    ELSE criticalScanMessage_dedup(content, k + 1,
            IF /\ includes(content, criticalKeywords[k])
               /\ \A j \in DOMAIN acc.factors :
                      acc.factors[j] # CriticalFactor(criticalKeywords[k])
            THEN [riskScore |-> acc.riskScore + CriticalWeight,
                  factors   |-> Append(acc.factors, CriticalFactor(criticalKeywords[k]))]
            ELSE acc)

\* for (const msg of userMessages) { const content = msg.content.toLowerCase(); ... }
\* from message i on (binding `after` in a set makes it a value before the next
\* iteration starts)
RECURSIVE criticalScan_dedup(_, _, _)
criticalScan_dedup(userMessages, i, acc) ==
    IF i > Len(userMessages) THEN acc
    ELSE LET content == toLowerCase(userMessages[i].content)
         IN  CHOOSE result \in
                 { criticalScan_dedup(userMessages, i + 1, after) :
                     after \in {criticalScanMessage_dedup(content, 1, acc)} } : TRUE

RECURSIVE criticalScan(_, _, _)
criticalScan(userMessages, i, acc) ==
    IF i > Len(userMessages) THEN acc
    ELSE LET content == toLowerCase(userMessages[i].content)
         IN  CHOOSE result \in
                 { criticalScan(userMessages, i + 1, after) :
                     after \in {criticalScanMessage(content, 1, acc)} } : TRUE

\* negativeCount: one increment per message with highKeywords.some(...)
negativeCount_perKeyword(userMessages) ==
    Cardinality({ <<i, k>> \in (DOMAIN userMessages) \X (DOMAIN highKeywords) :
                    includes(toLowerCase(userMessages[i].content), highKeywords[k]) })
negativeCount(userMessages) ==
    Cardinality({ i \in DOMAIN userMessages :
                    \E k \in DOMAIN highKeywords :
                        includes(toLowerCase(userMessages[i].content), highKeywords[k]) })

\* a tally that grades the negative mood: 10 for every negative message
riskTally_graded(messages) ==
    LET userMessages == userMessagesOf(recentOf(messages))
        afterCritical == criticalScan(userMessages, 1, [riskScore |-> 0, factors |-> <<>>])
        n == negativeCount(userMessages)
    IN  IF n >= 1
        THEN [riskScore |-> afterCritical.riskScore + 10 * n,
              factors   |-> Append(afterCritical.factors, NegativeFactor(n))]
        ELSE afterCritical

\* the state of (riskScore, factors) when the level is determined
riskTally(messages) ==
    LET userMessages == userMessagesOf(recentOf(messages))
        afterCritical == criticalScan(userMessages, 1, [riskScore |-> 0, factors |-> <<>>])
        n == negativeCount(userMessages)
    IN  IF n >= NegativeThreshold
        THEN [riskScore |-> afterCritical.riskScore + NegativeWeight,
              factors   |-> Append(afterCritical.factors, NegativeFactor(n))]
        ELSE afterCritical

\* the value of the local riskScore at the return
riskScore(messages) ==
    IF Len(messages) = 0 THEN 0 ELSE riskTally(messages).riskScore

\* "Determine level"
levelOf_strict(score) ==
    IF score > 50 THEN "critical"
    ELSE IF score > 30 THEN "high"
    ELSE IF score > 10 THEN "monitor"
    ELSE "safe"
levelOf(score) ==
    IF score >= 50 THEN "critical"
    ELSE IF score >= 30 THEN "high"
    ELSE IF score >= 10 THEN "monitor"
    ELSE "safe"

assessRisk(messages) ==
    IF Len(messages) = 0
    THEN [level |-> "safe", factors |-> <<>>]
    ELSE LET t == riskTally(messages)
         IN  [level |-> levelOf(t.riskScore), factors |-> t.factors]

(***************************************************************************)
(* Companion engine (ai-service.ts)                                        *)
(***************************************************************************)
\* a mood that was not detected (undefined)
NoMood == "undefined"

\* personality.ts is not part of the sources: the local keyword heuristic is
\* taken from the specification (4.4), first matching mood of a fixed table
moodIndicators ==
    << [mood |-> "sad",     words |-> { <<"s","a","d">> }],
       [mood |-> "lonely",  words |-> { <<"l","o","n","e","l","y">> }],
       [mood |-> "anxious", words |-> { <<"a","n","x","i","o","u","s">>,
                                        <<"w","o","r","r","i","e","d">> }],
       [mood |-> "happy",   words |-> { <<"h","a","p","p","y">> }] >>

analyzeMoodIndicators(message) ==
    LET lowerMsg == toLowerCase(message)
        hits == { i \in DOMAIN moodIndicators :
                    \E w \in moodIndicators[i].words : includes(lowerMsg, w) }
    IN  IF hits = {} THEN NoMood
        ELSE moodIndicators[CHOOSE i \in hits : \A j \in hits : i <= j].mood

\* The reply texts are template strings around the elder's name; each is kept
\* as a one-element text holding the template, so that it is non-empty as in
\* the code.  The empty text is <<>>.
SimHello       == <<"Hello there, ${name}! It's so lovely to hear from you.">>
SimHowAreYou   == <<"I'm doing wonderfully, ${name}, thank you for asking!">>
SimGoodMorning == <<"Good morning, ${name}! I hope you had a restful sleep.">>
SimGoodNight   == <<"Good night, ${name}! I hope you have sweet dreams.">>
SimToughTime   == <<"I can hear that you might be going through a tough time, ${name}.">>
SimMedication  == <<"I'm glad you're thinking about your medication, ${name}!">>
SimThanks      == <<"You're most welcome, ${name}!">>
SimLove        == <<"That's so wonderful to hear, ${name}!">>
SimBored       == <<"Oh, I understand that feeling, ${name}!">>
SimWeather     == <<"The weather is always a lovely topic, ${name}!">>
SimGeneric     == <<"That's interesting, ${name}! I love hearing from you.">>
FallbackText   == <<"I'm here with you, ${name}! Thank you for sharing that with me.">>
HandlerFallbackText == <<"I'm here with you! Sometimes I need a moment to think.">>

\* AIResponse (types): an absent shouldFollowUp is FALSE and an absent
\* followUpDelay is 0, which the handler's truth tests treat the same way
AIResponse(message, mood, shouldFollowUp, followUpDelay) ==
    [message |-> message, mood |-> mood,
     shouldFollowUp |-> shouldFollowUp, followUpDelay |-> followUpDelay]

FollowUpDelayMinutes == 30

simulatedText(userMessage, mood) ==
    LET lowerMsg == toLowerCase(userMessage)
    IN  IF \/ includes(lowerMsg, <<"h","e","l","l","o">>)
           \/ includes(lowerMsg, <<"h","i"," ">>)
           \/ lowerMsg = <<"h","i">>
        THEN SimHello
        ELSE IF includes(lowerMsg, <<"h","o","w"," ","a","r","e"," ","y","o","u">>)
        THEN SimHowAreYou
        ELSE IF includes(lowerMsg, <<"g","o","o","d"," ","m","o","r","n","i","n","g">>)
        THEN SimGoodMorning
        ELSE IF includes(lowerMsg, <<"g","o","o","d"," ","n","i","g","h","t">>)
        THEN SimGoodNight
        ELSE IF mood = "sad" \/ mood = "lonely"
        THEN SimToughTime
        ELSE IF \/ includes(lowerMsg, <<"m","e","d","i","c","i","n","e">>)
                \/ includes(lowerMsg, <<"m","e","d","i","c","a","t","i","o","n">>)
        THEN SimMedication
        ELSE IF includes(lowerMsg, <<"t","h","a","n","k">>)
        THEN SimThanks
        ELSE IF includes(lowerMsg, <<"l","o","v","e">>)
        THEN SimLove
        ELSE IF includes(lowerMsg, <<"b","o","r","e","d">>)
        THEN SimBored
        ELSE IF includes(lowerMsg, <<"w","e","a","t","h","e","r">>)
        THEN SimWeather
        ELSE SimGeneric

generateSimulatedResponse(userMessage, mood) ==
    AIResponse(simulatedText(userMessage, mood), mood,
               mood = "sad" \/ mood = "lonely", FollowUpDelayMinutes)

generateFallbackResponse == AIResponse(FallbackText, NoMood, FALSE, 0)

\* the value generateResponse returns once session.sendMessage resolved with text
completionResponse(text, detectedMood) ==
    AIResponse(text, detectedMood,
               detectedMood = "sad" \/ detectedMood = "lonely" \/ detectedMood = "anxious",
               IF detectedMood # NoMood THEN FollowUpDelayMinutes ELSE 0)

(***************************************************************************)
(* Inputs of the risk assessor                                             *)
(***************************************************************************)
\* ChatMessage (types): id, elderId, role, content, timestamp
ChatMessage(id, elderId, role, content, timestamp) ==
    [id |-> id, elderId |-> elderId, role |-> role,
     content |-> content, timestamp |-> timestamp]

TextChestPain  == <<"C","h","e","s","t"," ","P","A","I","N">>
TextSadAlone   == <<"s","o"," ","S","a","d",","," ","a","l","o","n","e">>
TextLonelyDie  == <<"l","o","n","e","l","y",","," ","d","i","e">>
TextHelpMe     == <<"h","e","l","p"," ","m","e">>
TextOk         == <<"o","k">>

\* a window element that matches no keyword
FillerMessage == ChatMessage(0, "e1", "user", TextOk, 0)

VariedMessages ==
    { ChatMessage(0, "e1", "user", TextChestPain, 0),
      ChatMessage(0, "e1", "user", TextSadAlone, 0),
      ChatMessage(0, "e1", "user", TextLonelyDie, 0),
      ChatMessage(0, "e1", "assistant", TextHelpMe, 0) }

MaxWindow == 22
MaxVaried == 3

(***************************************************************************)
(* Realtime gateway (chat-handler.ts): state                               *)
(***************************************************************************)
\* data.elderId absent from an event, currentElderId null
None == "none"
DefaultElder == "elder-demo"
Elders == {DefaultElder, "e1"}
Sockets == {"c1", "c2"}

\* conversationHistory.get(elderId) === undefined
NoArray == 0
\* the id of the 'init' message the join handler hands to the engine
InitMessageId == 0
NoSession == [exists |-> FALSE, seed |-> <<>>]
\* a chat:message event as it arrives: data.content is a string or is absent
Inbound(present, content) == [seen |-> TRUE, present |-> present, content |-> content]
\* no chat:message event arrived yet
NoInbound == [seen |-> FALSE, present |-> FALSE, content |-> <<>>]
\* analyzeImageMood was not called yet
NoVision == [calls |-> 0, reply |-> [kind |-> "none", text |-> <<>>], mood |-> None]

HistoryCap == 50
HistoryPage == 20
ContextSize == 10

VARIABLES
    window,               \* the messages last handed to assessRisk on its own
    risk,                 \* what assessRisk returned for window
    vision,               \* the last analyzeImageMood call: the service's reply, the result
    inbound,              \* the data.content of the last chat:message event received
    cleared,              \* elder -> ids of the messages its log held when it was cleared
    model,                \* ai-service: model !== null (GEMINI_API_KEY configured)
    activeSessions,       \* ai-service: elder -> cached ChatSession
    conversationHistory,  \* elder -> reference of the array the Map holds
    arrays,               \* the ChatMessage[] arrays allocated so far, by reference
    onlineElders,         \* elder -> socket of its registry entry
    currentElderId,       \* per socket, the closure variable of its handlers
    status,               \* per socket: "idle" (not yet connected), "open", "closed"
    familyRoom,           \* elder -> sockets in room `family:${elderId}`
    elderRoom,            \* elder -> sockets in room `elder:${elderId}`
    inflight,             \* handlers suspended at `await generateResponse(...)`
    timers,               \* armed setTimeout callbacks of scheduleFollowUp
    emitted,              \* every emit so far, in order
    now,                  \* the clock, in minutes
    nextId                \* source of uuidv4() values

riskVars == <<window, risk, vision, inbound, cleared>>
gatewayVars == <<model, activeSessions, conversationHistory, arrays, onlineElders,
                 currentElderId, status, familyRoom, elderRoom, inflight, timers,
                 emitted, now, nextId>>
vars == <<window, risk, vision, inbound, cleared, model, activeSessions, conversationHistory, arrays,
          onlineElders, currentElderId, status, familyRoom, elderRoom, inflight,
          timers, emitted, now, nextId>>

\* getConversationHistory(elderId)
getConversationHistory(elderId) ==
    IF conversationHistory[elderId] = NoArray THEN <<>>
    ELSE arrays[conversationHistory[elderId]]

\* `conversationHistory.get(elderId) || []`: the reference the handler works on
\* and the heap once a fresh array was allocated for a missing entry
historyRef(elderId) ==
    IF conversationHistory[elderId] = NoArray THEN Len(arrays) + 1
    ELSE conversationHistory[elderId]

heapWithHistory(elderId) ==
    IF conversationHistory[elderId] = NoArray THEN Append(arrays, <<>>) ELSE arrays

\* emit targets
ToSocket(c) == [kind |-> "socket", id |-> c]
ToFamily(elderId) == [kind |-> "family", id |-> elderId]
ToElder(elderId) == [kind |-> "elder", id |-> elderId]

\* variant: an emit to a family room reaches the observers of every elder
Recipients_anyFamily(to) ==
    IF to.kind = "socket" THEN (IF status[to.id] = "open" THEN {to.id} ELSE {})
    ELSE IF to.kind = "family" THEN UNION { familyRoom[e] : e \in Elders }
    ELSE elderRoom[to.id]

\* the sockets an emit reaches: an open socket, or the members of a room
Recipients(to) ==
    IF to.kind = "socket" THEN (IF status[to.id] = "open" THEN {to.id} ELSE {})
    ELSE IF to.kind = "family" THEN familyRoom[to.id]
    ELSE elderRoom[to.id]

\* one emit: the event name, its target, its payload; cause is the id of the
\* message, join or timer whose handling emitted it
Event(ev, to, cause, payload) ==
    [ev |-> ev, to |-> to, rcpt |-> Recipients(to), cause |-> cause, payload |-> payload]

\* String.prototype.trim
Whitespace == {" ", "\t", "\n"}

RECURSIVE trimStart(_)
trimStart(s) ==
    IF s # <<>> /\ Head(s) \in Whitespace THEN trimStart(Tail(s)) ELSE s

RECURSIVE trimEnd(_)
trimEnd(s) ==
    IF s # <<>> /\ s[Len(s)] \in Whitespace THEN trimEnd(SubSeq(s, 1, Len(s) - 1)) ELSE s

\* variant: the content is taken as sent
trim_asSent(s) == s

trim(s) == trimEnd(trimStart(s))

\* buildContext(...).recentMessages, as the ids of recentMessages.slice(-10)
contextIds(history) ==
    LET recent == sliceLast(history, ContextSize)
    IN  [i \in 1..Len(recent) |-> recent[i].id]

\* getOrCreateSession(context): the session cache afterwards
getOrCreateSession(elderId, seed) ==
    IF model /\ ~activeSessions[elderId].exists
    THEN [activeSessions EXCEPT ![elderId] = [exists |-> TRUE, seed |-> seed]]
    ELSE activeSessions

\* what session.sendMessage can do: resolve with text, resolve with the empty
\* text, or reject (an error of the service, or its timeout)
Outcomes == {"text", "empty", "throws"}
CompletionText == <<"(text of the completion service)">>

\* the AIResponse generateResponse returns after the awaited call settled
settledResponse(outcome, detectedMood) ==
    IF outcome = "throws" THEN generateFallbackResponse
    ELSE completionResponse(IF outcome = "text" THEN CompletionText ELSE <<>>,
                            detectedMood)

\* a handler suspended at its await
Task(kind, id, socket, elderId, history, content, detectedMood, delay) ==
    [kind |-> kind, id |-> id, socket |-> socket, elderId |-> elderId,
     history |-> history, content |-> content, detectedMood |-> detectedMood,
     delay |-> delay]

\* getUpcomingRoutines(elderId, 30) of the routine provider returned routines
routinesEvents(c, cause, routinesDue) ==
    IF routinesDue THEN <<Event("routines:upcoming", ToSocket(c), cause, [count |-> 1])>>
    ELSE <<>>

(***************************************************************************)
(* Realtime gateway: the chat:message handler                              *)
(***************************************************************************)
\* history.push(userMessage); if (history.length > 50) history.splice(0, history.length - 50)
storeUserMessage(history, userMessage) ==
    LET pushed == Append(history, userMessage)
    IN  IF Len(pushed) > HistoryCap
        THEN SubSeq(pushed, Len(pushed) - HistoryCap + 1, Len(pushed))
        ELSE pushed

\* variant: alerts the family for the critical level only
riskAlertEvents_criticalOnly(elderId, mid, history) ==
    LET r == assessRisk(history)
    IN  IF r.level = "critical"
        THEN <<Event("elder:risk-alert", ToFamily(elderId), mid,
                     [elderId |-> elderId, level |-> r.level,
                      factors |-> r.factors, timestamp |-> now])>>
        ELSE <<>>

\* "Start Risk Assessment": the emits of the risk check on the stored history
riskAlertEvents(elderId, mid, history) ==
    LET r == assessRisk(history)
    IN  IF r.level = "critical" \/ r.level = "high"
        THEN <<Event("elder:risk-alert", ToFamily(elderId), mid,
                     [elderId |-> elderId, level |-> r.level,
                      factors |-> r.factors, timestamp |-> now])>>
        ELSE <<>>

\* variant: the response is emitted before the typing indicator is stopped
replyEvents_responseFirst(c, elderId, content, mid, assistantMessage, aiResponse) ==
    << Event("chat:response", ToSocket(c), mid, assistantMessage),
       Event("chat:typing", ToSocket(c), mid, [isTyping |-> FALSE]) >>
    \o (IF aiResponse.mood # NoMood /\ aiResponse.mood \in {"sad", "lonely", "anxious"}
        THEN <<Event("elder:mood-alert", ToFamily(elderId), mid,
                     [elderId |-> elderId, mood |-> aiResponse.mood,
                      message |-> content, timestamp |-> now])>>
        ELSE <<>>)

\* the emits after the assistant message was stored: typing off, the response,
\* and the mood alert for a concerning mood
replyEvents(c, elderId, content, mid, assistantMessage, aiResponse) ==
    << Event("chat:typing", ToSocket(c), mid, [isTyping |-> FALSE]),
       Event("chat:response", ToSocket(c), mid, assistantMessage) >>
    \o (IF aiResponse.mood # NoMood /\ aiResponse.mood \in {"sad", "lonely", "anxious"}
        THEN <<Event("elder:mood-alert", ToFamily(elderId), mid,
                     [elderId |-> elderId, mood |-> aiResponse.mood,
                      message |-> content, timestamp |-> now])>>
        ELSE <<>>)

\* scheduleFollowUp(io, elderId, profile, delayMinutes), when the handler calls it
replyTimers(elderId, mid, aiResponse) ==
    IF aiResponse.shouldFollowUp /\ aiResponse.followUpDelay # 0
    THEN {[id |-> mid, elderId |-> elderId, delay |-> aiResponse.followUpDelay,
           due |-> now + aiResponse.followUpDelay]}
    ELSE {}

\* socket.on('chat:message'): the handler up to its await, and to its end when
\* nothing suspends it (no session: the awaited promise is already resolved, or
\* an exception inside the try block).  unexpectedError: buildContext throws.
HandleChatMessage(c, dataElderId, dataContent, unexpectedError) ==
    /\ status[c] = "open"
    /\ inbound' = Inbound(TRUE, dataContent)
    /\ UNCHANGED <<window, risk, vision, cleared, model, onlineElders, currentElderId,
                   status, familyRoom, elderRoom, now>>
    /\ LET elderId == IF dataElderId # None THEN dataElderId
                      ELSE IF currentElderId[c] # None THEN currentElderId[c]
                      ELSE DefaultElder
           content == trim(dataContent)
       IN  IF content = <<>>
           THEN UNCHANGED <<activeSessions, conversationHistory, arrays, inflight,
                            timers, emitted, nextId>>
           ELSE
           LET mid == nextId
               userMessage == ChatMessage(mid, elderId, "user", content, now)
               ref == historyRef(elderId)
               history == storeUserMessage(heapWithHistory(elderId)[ref], userMessage)
               heap == [heapWithHistory(elderId) EXCEPT ![ref] = history]
               syncEvents ==
                   <<Event("chat:received", ToSocket(c), mid, [messageId |-> mid])>>
                   \o riskAlertEvents(elderId, mid, history)
                   \o <<Event("chat:typing", ToSocket(c), mid, [isTyping |-> TRUE])>>
               detectedMood == analyzeMoodIndicators(content)
           IN  /\ conversationHistory' = [conversationHistory EXCEPT ![elderId] = ref]
               /\ IF unexpectedError
                  THEN /\ arrays' = heap
                       /\ emitted' = emitted \o syncEvents \o
                            << Event("chat:typing", ToSocket(c), mid, [isTyping |-> FALSE]),
                               Event("chat:response", ToSocket(c), mid,
                                     ChatMessage(mid + 1, elderId, "assistant",
                                                 HandlerFallbackText, now)) >>
                       /\ nextId' = mid + 2
                       /\ UNCHANGED <<activeSessions, inflight, timers>>
                  ELSE IF ~model
                  THEN LET aiResponse == generateSimulatedResponse(content, detectedMood)
                           assistantMessage ==
                               ChatMessage(mid + 1, elderId, "assistant",
                                           aiResponse.message, now)
                       IN  /\ arrays' = [heap EXCEPT ![ref] = Append(history, assistantMessage)]
                           /\ emitted' = emitted \o syncEvents \o
                                replyEvents(c, elderId, content, mid, assistantMessage, aiResponse)
                           /\ timers' = timers \cup replyTimers(elderId, mid, aiResponse)
                           /\ nextId' = mid + 2
                           /\ UNCHANGED <<activeSessions, inflight>>
                  ELSE /\ arrays' = heap
                       /\ activeSessions' = getOrCreateSession(elderId, contextIds(history))
                       /\ inflight' = inflight \cup
                            {Task("message", mid, c, elderId, ref, content, detectedMood, 0)}
                       /\ emitted' = emitted \o syncEvents
                       /\ nextId' = mid + 1
                       /\ UNCHANGED timers

\* variant: the reply is put in front of the log
ChatReplySettles_unshift(t, outcome) ==
    /\ t \in inflight
    /\ t.kind = "message"
    /\ LET aiResponse == settledResponse(outcome, t.detectedMood)
           assistantMessage ==
               ChatMessage(nextId, t.elderId, "assistant", aiResponse.message, now)
       IN  /\ arrays' = [arrays EXCEPT ![t.history] = <<assistantMessage>> \o @]
           /\ conversationHistory' = [conversationHistory EXCEPT ![t.elderId] = t.history]
           /\ emitted' = emitted \o
                replyEvents(t.socket, t.elderId, t.content, t.id, assistantMessage, aiResponse)
           /\ timers' = timers \cup replyTimers(t.elderId, t.id, aiResponse)
    /\ inflight' = inflight \ {t}
    /\ nextId' = nextId + 1
    /\ UNCHANGED <<riskVars, model, activeSessions, onlineElders, currentElderId,
                   status, familyRoom, elderRoom, now>>

\* the rest of the chat:message handler, once session.sendMessage settled
ChatReplySettles(t, outcome) ==
    /\ t \in inflight
    /\ t.kind = "message"
    /\ LET aiResponse == settledResponse(outcome, t.detectedMood)
           assistantMessage ==
               ChatMessage(nextId, t.elderId, "assistant", aiResponse.message, now)
       IN  /\ arrays' = [arrays EXCEPT ![t.history] = Append(@, assistantMessage)]
           /\ conversationHistory' = [conversationHistory EXCEPT ![t.elderId] = t.history]
           /\ emitted' = emitted \o
                replyEvents(t.socket, t.elderId, t.content, t.id, assistantMessage, aiResponse)
           /\ timers' = timers \cup replyTimers(t.elderId, t.id, aiResponse)
    /\ inflight' = inflight \ {t}
    /\ nextId' = nextId + 1
    /\ UNCHANGED <<riskVars, model, activeSessions, onlineElders, currentElderId,
                   status, familyRoom, elderRoom, now>>

(***************************************************************************)
(* Realtime gateway: elder:join, family:join, disconnect                   *)
(***************************************************************************)
\* a client connects: io.on('connection') with currentElderId = null
Connect(c) ==
    /\ status[c] = "idle"
    /\ status' = [status EXCEPT ![c] = "open"]
    /\ UNCHANGED <<riskVars, model, activeSessions, conversationHistory, arrays,
                   onlineElders, currentElderId, familyRoom, elderRoom, inflight,
                   timers, emitted, now, nextId>>

\* socket.on('elder:join'): to its end, or to the await of the welcome
ElderJoin(c, dataElderId, routinesDue) ==
    /\ status[c] = "open"
    /\ LET elderId == IF dataElderId # None THEN dataElderId ELSE DefaultElder
           jid == nextId
           ref == historyRef(elderId)
           history == heapWithHistory(elderId)[ref]
       IN  /\ currentElderId' = [currentElderId EXCEPT ![c] = elderId]
           /\ elderRoom' = [elderRoom EXCEPT ![elderId] = @ \cup {c}]
           /\ onlineElders' = [onlineElders EXCEPT ![elderId] = c]
           /\ IF Len(history) = 0
              THEN IF ~model
                   THEN LET welcomeResponse ==
                                generateSimulatedResponse(<<>>, analyzeMoodIndicators(<<>>))
                            welcomeMessage ==
                                ChatMessage(jid + 1, elderId, "assistant",
                                            welcomeResponse.message, now)
                        IN  /\ arrays' = [heapWithHistory(elderId) EXCEPT
                                            ![ref] = Append(history, welcomeMessage)]
                            /\ conversationHistory' =
                                 [conversationHistory EXCEPT ![elderId] = ref]
                            /\ emitted' = emitted \o
                                 <<Event("chat:response", ToSocket(c), jid, welcomeMessage)>>
                                 \o routinesEvents(c, jid, routinesDue)
                            /\ nextId' = jid + 2
                            /\ UNCHANGED <<activeSessions, inflight>>
                   ELSE /\ arrays' = heapWithHistory(elderId)
                        /\ activeSessions' = getOrCreateSession(elderId, <<InitMessageId>>)
                        /\ inflight' = inflight \cup
                             {Task("join", jid, c, elderId, ref, <<>>,
                                   analyzeMoodIndicators(<<>>), 0)}
                        /\ nextId' = jid + 1
                        /\ UNCHANGED <<conversationHistory, emitted>>
              ELSE /\ emitted' = emitted \o
                        <<Event("chat:history", ToSocket(c), jid,
                                sliceLast(history, HistoryPage))>>
                        \o routinesEvents(c, jid, routinesDue)
                   /\ nextId' = jid + 1
                   /\ UNCHANGED <<activeSessions, conversationHistory, arrays, inflight>>
    /\ UNCHANGED <<riskVars, model, status, familyRoom, timers, now>>

\* the rest of the elder:join handler, once session.sendMessage settled
WelcomeSettles(t, outcome, routinesDue) ==
    /\ t \in inflight
    /\ t.kind = "join"
    /\ LET welcomeResponse == settledResponse(outcome, t.detectedMood)
           welcomeMessage ==
               ChatMessage(nextId, t.elderId, "assistant", welcomeResponse.message, now)
       IN  /\ arrays' = [arrays EXCEPT ![t.history] = Append(@, welcomeMessage)]
           /\ conversationHistory' = [conversationHistory EXCEPT ![t.elderId] = t.history]
           /\ emitted' = emitted \o
                <<Event("chat:response", ToSocket(t.socket), t.id, welcomeMessage)>>
                \o routinesEvents(t.socket, t.id, routinesDue)
    /\ inflight' = inflight \ {t}
    /\ nextId' = nextId + 1
    /\ UNCHANGED <<riskVars, model, activeSessions, onlineElders, currentElderId,
                   status, familyRoom, elderRoom, timers, now>>

\* socket.on('family:join')
FamilyJoin(c, elderId) ==
    /\ status[c] = "open"
    /\ familyRoom' = [familyRoom EXCEPT ![elderId] = @ \cup {c}]
    /\ UNCHANGED <<riskVars, model, activeSessions, conversationHistory, arrays,
                   onlineElders, currentElderId, status, elderRoom, inflight, timers,
                   emitted, now, nextId>>

\* variant: the disconnect cancels the socket's pending calls and its elder's timers
Disconnect_cancels(c) ==
    /\ status[c] = "open"
    /\ status' = [status EXCEPT ![c] = "closed"]
    /\ onlineElders' = IF currentElderId[c] # None
                       THEN [onlineElders EXCEPT ![currentElderId[c]] = None]
                       ELSE onlineElders
    /\ familyRoom' = [e \in Elders |-> familyRoom[e] \ {c}]
    /\ elderRoom' = [e \in Elders |-> elderRoom[e] \ {c}]
    /\ inflight' = { t \in inflight : t.socket # c }
    /\ timers' = { t \in timers : t.elderId # currentElderId[c] }
    /\ UNCHANGED <<riskVars, model, activeSessions, conversationHistory, arrays,
                   currentElderId, emitted, now, nextId>>

\* variant: the disconnect also drops the log of the elder the socket is bound to
Disconnect_dropsHistory(c) ==
    /\ status[c] = "open"
    /\ status' = [status EXCEPT ![c] = "closed"]
    /\ onlineElders' = IF currentElderId[c] # None
                       THEN [onlineElders EXCEPT ![currentElderId[c]] = None]
                       ELSE onlineElders
    /\ conversationHistory' = IF currentElderId[c] # None
                              THEN [conversationHistory EXCEPT ![currentElderId[c]] = NoArray]
                              ELSE conversationHistory
    /\ familyRoom' = [e \in Elders |-> familyRoom[e] \ {c}]
    /\ elderRoom' = [e \in Elders |-> elderRoom[e] \ {c}]
    /\ UNCHANGED <<riskVars, model, activeSessions, arrays,
                   currentElderId, inflight, timers, emitted, now, nextId>>

\* socket.on('disconnect'); socket.io also takes the socket out of its rooms
Disconnect(c) ==
    /\ status[c] = "open"
    /\ status' = [status EXCEPT ![c] = "closed"]
    /\ onlineElders' = IF currentElderId[c] # None
                       THEN [onlineElders EXCEPT ![currentElderId[c]] = None]
                       ELSE onlineElders
    /\ familyRoom' = [e \in Elders |-> familyRoom[e] \ {c}]
    /\ elderRoom' = [e \in Elders |-> elderRoom[e] \ {c}]
    /\ UNCHANGED <<riskVars, model, activeSessions, conversationHistory, arrays,
                   currentElderId, inflight, timers, emitted, now, nextId>>

(***************************************************************************)
(* Proactive follow-up (scheduleFollowUp)                                  *)
(***************************************************************************)
FollowUpPrompt ==
    <<"[","S","Y","S","T","E","M",":"," ","C","h","e","c","k"," ","i","n"," ","o",
      "n"," ","t","h","e"," ","e","l","d","e","r",","," ","t","h","e","y"," ","s",
      "e","e","m","e","d"," ","t","o"," ","b","e"," ","h","a","v","i","n","g"," ",
      "a"," ","d","i","f","f","i","c","u","l","t"," ","t","i","m","e"," ","e","a",
      "r","l","i","e","r","."," ","B","e"," ","g","e","n","t","l","e"," ","a","n",
      "d"," ","c","a","r","i","n","g",".","]">>

\* the setTimeout callback of scheduleFollowUp, to its end or to its await
FollowUpFires(t) ==
    /\ t \in timers
    /\ now >= t.due
    /\ timers' = timers \ {t}
    /\ LET ref == historyRef(t.elderId)
           history == heapWithHistory(t.elderId)[ref]
           active == /\ Len(history) > 0
                     /\ now - history[Len(history)].timestamp < t.delay
       IN  IF active
           THEN UNCHANGED <<activeSessions, conversationHistory, arrays, inflight,
                            emitted, nextId>>
           ELSE IF ~model
           THEN LET followUp == generateSimulatedResponse(
                                    FollowUpPrompt, analyzeMoodIndicators(FollowUpPrompt))
                    message == ChatMessage(nextId, t.elderId, "assistant",
                                           followUp.message, now)
                IN  /\ arrays' = [heapWithHistory(t.elderId) EXCEPT
                                    ![ref] = Append(history, message)]
                    /\ conversationHistory' =
                         [conversationHistory EXCEPT ![t.elderId] = ref]
                    /\ emitted' = emitted \o
                         <<Event("companion:proactive", ToElder(t.elderId), t.id, message)>>
                    /\ nextId' = nextId + 1
                    /\ UNCHANGED <<activeSessions, inflight>>
           ELSE /\ arrays' = heapWithHistory(t.elderId)
                /\ activeSessions' =
                     getOrCreateSession(t.elderId, contextIds(getConversationHistory(t.elderId)))
                /\ inflight' = inflight \cup
                     {Task("followup", t.id, None, t.elderId, ref, FollowUpPrompt,
                           analyzeMoodIndicators(FollowUpPrompt), t.delay)}
                /\ UNCHANGED <<conversationHistory, emitted, nextId>>
    /\ UNCHANGED <<riskVars, model, onlineElders, currentElderId, status,
                   familyRoom, elderRoom, now>>

\* the rest of the callback, once session.sendMessage settled
FollowUpSettles(t, outcome) ==
    /\ t \in inflight
    /\ t.kind = "followup"
    /\ LET followUp == settledResponse(outcome, t.detectedMood)
           message == ChatMessage(nextId, t.elderId, "assistant", followUp.message, now)
       IN  /\ arrays' = [arrays EXCEPT ![t.history] = Append(@, message)]
           /\ conversationHistory' = [conversationHistory EXCEPT ![t.elderId] = t.history]
           /\ emitted' = emitted \o
                <<Event("companion:proactive", ToElder(t.elderId), t.id, message)>>
    /\ inflight' = inflight \ {t}
    /\ nextId' = nextId + 1
    /\ UNCHANGED <<riskVars, model, activeSessions, onlineElders, currentElderId,
                   status, familyRoom, elderRoom, timers, now>>

\* time passes
TickMinutes == 15
Tick ==
    /\ now' = now + TickMinutes
    /\ UNCHANGED <<riskVars, model, activeSessions, conversationHistory, arrays,
                   onlineElders, currentElderId, status, familyRoom, elderRoom,
                   inflight, timers, emitted, nextId>>

(***************************************************************************)
(* The risk assessor called on its own                                     *)
(***************************************************************************)
VariedCount(w) == Cardinality({ i \in DOMAIN w : w[i] # FillerMessage })

\* the filler messages of a window form one contiguous block
FillerBlockOpen(w) ==
    IF \A i \in DOMAIN w : w[i] # FillerMessage THEN TRUE
    ELSE w[Len(w)] = FillerMessage

\* a caller hands assessRisk a window that ends with message m
AssessVaried(m) ==
    /\ Len(window) < MaxWindow
    /\ VariedCount(window) < MaxVaried
    /\ window' = Append(window, m)
    /\ risk' = assessRisk(window')
    /\ UNCHANGED <<vision, inbound, cleared, gatewayVars>>

\* the same with a message that matches nothing; such messages form one block
AssessFiller ==
    /\ Len(window) < MaxWindow
    /\ FillerBlockOpen(window)
    /\ window' = Append(window, FillerMessage)
    /\ risk' = assessRisk(window')
    /\ UNCHANGED <<vision, inbound, cleared, gatewayVars>>

(***************************************************************************)
(* Specifications                                                          *)
(***************************************************************************)
Init ==
    /\ window = <<>>
    /\ risk = assessRisk(window)
    /\ vision = NoVision
    /\ inbound = NoInbound
    /\ cleared = [e \in Elders |-> {}]
    /\ model \in BOOLEAN
    /\ activeSessions = [e \in Elders |-> NoSession]
    /\ conversationHistory = [e \in Elders |-> NoArray]
    /\ arrays = <<>>
    /\ onlineElders = [e \in Elders |-> None]
    /\ currentElderId = [c \in Sockets |-> None]
    /\ status = [c \in Sockets |-> "idle"]
    /\ familyRoom = [e \in Elders |-> {}]
    /\ elderRoom = [e \in Elders |-> {}]
    /\ inflight = {}
    /\ timers = {}
    /\ emitted = <<>>
    /\ now = 0
    /\ nextId = 1

\* the number of emits of one event so far
EmitCount(ev) == Cardinality({ i \in DOMAIN emitted : emitted[i].ev = ev })

\* the number of replies that came from the handler's catch block
HandlerFallbacks ==
    Cardinality({ i \in DOMAIN emitted :
                    /\ emitted[i].ev = "chat:response"
                    /\ emitted[i].payload.content = HandlerFallbackText })

\* --- the risk assessor on its own ---
InitRisk == Init /\ model = FALSE

NextRisk ==
    \/ \E m \in VariedMessages : AssessVaried(m)
    \/ AssessFiller

SpecRisk == InitRisk /\ [][NextRisk]_vars

\* --- one elder socket chatting, one family socket observing ---
TextAnxious == <<"I"," ","a","m"," ","a","n","x","i","o","u","s">>
TextHappy   == <<"s","o"," ","h","a","p","p","y">>
TextBlank   == <<" "," ">>

ChatTexts == {TextLonelyDie, TextSadAlone, TextAnxious, TextHappy, TextOk, TextBlank}

MaxMessages == 2

MaxErrors == 1
MaxInflight == 2

NextChat ==
    \/ \E c \in Sockets : Connect(c)
    \/ \E e \in {None, "e1"} :
          currentElderId["c1"] = None /\ ElderJoin("c1", e, FALSE)
    \/ \E e \in Elders :
          (\A x \in Elders : "c2" \notin familyRoom[x]) /\ FamilyJoin("c2", e)
    \/ \E txt \in ChatTexts, err \in BOOLEAN :
          /\ EmitCount("chat:received") < MaxMessages
          /\ err => HandlerFallbacks < MaxErrors
          /\ Cardinality(inflight) < MaxInflight
          /\ HandleChatMessage("c1", None, txt, err)
    \/ \E t \in inflight, o \in Outcomes : ChatReplySettles(t, o)
    \/ \E t \in inflight, o \in Outcomes : WelcomeSettles(t, o, FALSE)

\* a call to the completion service settles: it resolves, rejects or times out
SettleFairness ==
    /\ WF_vars(\E t \in inflight, o \in Outcomes : ChatReplySettles(t, o))
    /\ WF_vars(\E t \in inflight, o \in Outcomes : WelcomeSettles(t, o, FALSE))

SpecChat == Init /\ [][NextChat]_vars /\ SettleFairness

\* --- risk alerts: three messages of few texts, the elder named or not ---
AlertTexts == {TextLonelyDie, TextSadAlone, TextOk}
MaxAlertMessages == 3

NextAlert ==
    \/ \E c \in Sockets : Connect(c)
    \/ currentElderId["c1"] = None /\ ElderJoin("c1", "e1", FALSE)
    \/ \E e \in Elders :
          (\A x \in Elders : "c2" \notin familyRoom[x]) /\ FamilyJoin("c2", e)
    \/ \E d \in {None, DefaultElder}, txt \in AlertTexts :
          /\ EmitCount("chat:received") < MaxAlertMessages
          /\ Cardinality(inflight) < MaxInflight
          /\ HandleChatMessage("c1", d, txt, FALSE)
    \/ \E t \in inflight : ChatReplySettles(t, "text")
    \/ \E t \in inflight : WelcomeSettles(t, "text", FALSE)

SpecAlert == Init /\ [][NextAlert]_vars

\* --- one elder filling its log, one reply at a time ---
MaxStoreMessages == 26

NextStore ==
    \/ Connect("c1")
    \/ currentElderId["c1"] = None /\ ElderJoin("c1", "e1", FALSE)
    \/ /\ EmitCount("chat:received") < MaxStoreMessages
       /\ inflight = {}
       /\ HandleChatMessage("c1", "e1", TextOk, FALSE)
    \/ \E t \in inflight : ChatReplySettles(t, "text")
    \/ \E t \in inflight : WelcomeSettles(t, "text", FALSE)

SpecStore == Init /\ [][NextStore]_vars

(***************************************************************************)
(* Claims about the risk assessor, stated over the window the caller       *)
(* passed (window) and the result assessRisk returned for it (risk)        *)
(***************************************************************************)
\* the lower-cased texts of the user-role messages among the last 20
UserTexts(w) ==
    LET u == SelectSeq(sliceLast(w, 20), LAMBDA m : m.role = "user")
    IN  [i \in 1..Len(u) |-> toLowerCase(u[i].content)]

\* the pairs <<message, keyword>> of the lower-cased texts t with a critical
\* match, message order first, keyword-list order second
CriticalPairsOf(t) ==
    LET K == Len(criticalKeywords)
        all == [p \in 1..(Len(t) * K) |-> <<((p - 1) \div K) + 1, ((p - 1) % K) + 1>>]
    IN  SelectSeq(all, LAMBDA pr : includes(t[pr[1]], criticalKeywords[pr[2]]))

CriticalPairs(w) == CHOOSE r \in { CriticalPairsOf(t) : t \in {UserTexts(w)} } : TRUE

\* the number of texts among t with at least one elevated-set word
ElevatedCountOf(t) ==
    Cardinality({ i \in DOMAIN t :
                    \E k \in DOMAIN highKeywords : includes(t[i], highKeywords[k]) })

ElevatedCount(w) == CHOOSE n \in { ElevatedCountOf(t) : t \in {UserTexts(w)} } : TRUE

ExpectedWeight(w) ==
    50 * Len(CriticalPairs(w)) + (IF ElevatedCount(w) >= 3 THEN 30 ELSE 0)

\* C2: every (user message, critical keyword) match adds 50 and one factor
\* naming the keyword, without de-duplication; a window with a critical match
\* is critical; the factors follow scan order, the negative-mood factor last.
C2_CriticalMatches ==
    LET m == CriticalPairs(window)
        n == ElevatedCount(window)
    IN  /\ riskScore(window) = ExpectedWeight(window)
        /\ risk.factors =
              [j \in 1..Len(m) |-> CriticalFactor(criticalKeywords[m[j][2]])]
              \o (IF n >= 3 THEN <<NegativeFactor(n)>> ELSE <<>>)
        /\ (Len(m) >= 1 => risk.level = "critical")

\* two messages matched the same critical keyword and the mood factor follows
C2_Witness ==
    /\ Len(risk.factors) >= 3
    /\ \E i, j \in DOMAIN risk.factors : i < j /\ risk.factors[i] = risk.factors[j]
    /\ risk.factors[Len(risk.factors)] = NegativeFactor(3)

\* C3: the level follows the weight by the thresholds 50, 30, 10, and a
\* window that is empty or matches no keyword is safe with no factors.
C3_Thresholds ==
    LET s == ExpectedWeight(window)
    IN  /\ risk.level = (IF s >= 50 THEN "critical"
                         ELSE IF s >= 30 THEN "high"
                         ELSE IF s >= 10 THEN "monitor"
                         ELSE "safe")
        /\ (window = <<>> \/ (Len(CriticalPairs(window)) = 0 /\ ElevatedCount(window) = 0))
              => risk = [level |-> "safe", factors |-> <<>>]

\* a weight exactly on a threshold
C3_Witness ==
    /\ ExpectedWeight(window) = 50
    /\ risk.level = "critical"

\* C4: the negative-mood counter counts messages, not keywords; from 3 on it
\* adds 30 once with one factor stating the count; without critical words
\* three elevated messages are high and two are safe.
C4_NegativeMood ==
    LET m == CriticalPairs(window)
        n == ElevatedCount(window)
        moodFactors == { j \in DOMAIN risk.factors :
                            risk.factors[j][1] = "Persistent negative mood" }
    IN  /\ n >= 3 => /\ moodFactors = {Len(risk.factors)}
                     /\ risk.factors[Len(risk.factors)] = NegativeFactor(n)
                     /\ riskScore(window) = 50 * Len(m) + 30
        /\ n < 3 => /\ moodFactors = {}
                    /\ riskScore(window) = 50 * Len(m)
        /\ (Len(m) = 0 /\ n >= 3) => risk.level = "high"
        /\ (Len(m) = 0 /\ n = 2) => risk.level = "safe"

\* two messages that each hold two elevated words, and no critical word
C4_Witness ==
    /\ ElevatedCount(window) = 2
    /\ Len(CriticalPairs(window)) = 0
    /\ Cardinality({ i \in DOMAIN window : window[i].content = TextSadAlone }) = 2
    /\ risk.level = "safe"

\* C5: the result is a function of the user-role contents of the last 20
\* messages: it equals the assessment of a window made of those contents alone.
C5_LastTwentyUserOnly ==
    LET u == SelectSeq(sliceLast(window, 20), LAMBDA m : m.role = "user")
        canonical == [i \in 1..Len(u) |-> ChatMessage(i, "canonical", "user", u[i].content, 0)]
    IN  risk = assessRisk(canonical)

\* a critical user message older than the last 20, an assistant message with a
\* critical word inside them
C5_Witness ==
    /\ Len(window) > 20
    /\ \E i \in 1..(Len(window) - 20) :
          window[i].role = "user" /\ window[i].content = TextChestPain
    /\ \E i \in (Len(window) - 19)..Len(window) :
          window[i].role = "assistant" /\ window[i].content = TextHelpMe
    /\ risk.level = "safe"

(***************************************************************************)
(* Claims about the gateway                                                *)
(***************************************************************************)
\* the emits of the step being taken
NewEvents == SubSeq(emitted', Len(emitted) + 1, Len(emitted'))

\* an elder's log after the step being taken
historyAfter(e) ==
    IF conversationHistory'[e] = NoArray THEN <<>> ELSE arrays'[conversationHistory'[e]]

\* the elder whose stored log holds message mid after the step
ElderStoring(mid) ==
    CHOOSE e \in Elders :
        \E k \in DOMAIN historyAfter(e) : historyAfter(e)[k].id = mid

\* that log up to and including message mid
StoredUpTo(mid) ==
    LET log == historyAfter(ElderStoring(mid))
        k == CHOOSE k \in DOMAIN log : log[k].id = mid
    IN  SubSeq(log, 1, k)

\* C1: a step that accepts a chat message (it emits chat:received) assesses the
\* elder's stored log as it is after the user append; it emits exactly one
\* risk-alert with that level and those factors to the elder's family room
\* if the level is high or critical, right after the acknowledgement and
\* before typing-on and anything the completion call produces, and none
\* otherwise; no other step emits a risk-alert.
C1_RiskAlertOnAccept ==
    [][ LET new == NewEvents
            alerts == { i \in DOMAIN new : new[i].ev = "elder:risk-alert" }
        IN  IF \A i \in DOMAIN new : new[i].ev # "chat:received"
            THEN alerts = {}
            ELSE /\ new[1].ev = "chat:received"
                 /\ LET mid == new[1].payload.messageId
                        e == ElderStoring(mid)
                        r == assessRisk(StoredUpTo(mid))
                    IN  IF r.level \in {"high", "critical"}
                        THEN /\ alerts = {2}
                             /\ new[2].to = ToFamily(e)
                             /\ new[2].payload.elderId = e
                             /\ new[2].payload.level = r.level
                             /\ new[2].payload.factors = r.factors
                             /\ new[3].ev = "chat:typing"
                        ELSE alerts = {}
      ]_vars

\* a high risk-alert reached an observer while the completion call of the
\* message that caused it is still awaited
C1_Witness ==
    \E i \in DOMAIN emitted :
        /\ emitted[i].ev = "elder:risk-alert"
        /\ emitted[i].payload.level = "high"
        /\ emitted[i].rcpt = {"c2"}
        /\ \E t \in inflight : t.kind = "message" /\ t.id = emitted[i].cause

\* C6: every elder's conversation log holds at most 50 messages.
C6_LogAtMostFifty ==
    \A e \in Elders : Len(getConversationHistory(e)) <= 50

\* C7: when the appends of a step would take an elder's log over 50 entries,
\* the log afterwards is the 50 most recently appended messages in order.
C7_EvictOldestFirst ==
    [][ \A e \in Elders :
          LET old == getConversationHistory(e)
              new == historyAfter(e)
              added == SelectSeq(new, LAMBDA m : m.id >= nextId)
          IN  (added # <<>> /\ Len(old) + Len(added) > 50)
                 => new = sliceLast(old \o added, 50)
      ]_vars

\* the ids of the chat messages accepted so far
AcceptedIds ==
    { emitted[i].cause : i \in { j \in DOMAIN emitted : emitted[j].ev = "chat:received" } }

\* the chat:response emits caused by message mid
ResponsesTo(mid) ==
    { i \in DOMAIN emitted : emitted[i].ev = "chat:response" /\ emitted[i].cause = mid }

\* the handler of message mid is still suspended at its await
Awaited(mid) == \E t \in inflight : t.kind = "message" /\ t.id = mid

\* the text of the accepted user message mid
UserTextOf(mid) ==
    LET a == CHOOSE a \in DOMAIN arrays : \E k \in DOMAIN arrays[a] : arrays[a][k].id = mid
        k == CHOOSE k \in DOMAIN arrays[a] : arrays[a][k].id = mid
    IN  arrays[a][k].content

\* C8: each accepted message gets exactly one chat:response on the sender's
\* socket once its handler is through, never more, always with non-empty
\* content, and no error event is emitted.
C8_OneNonEmptyReply ==
    /\ \A i \in DOMAIN emitted : emitted[i].ev # "error"
    /\ \A mid \in AcceptedIds :
          /\ Cardinality(ResponsesTo(mid)) <= 1
          /\ ~Awaited(mid) => Cardinality(ResponsesTo(mid)) = 1
          /\ \A i \in ResponsesTo(mid) : emitted[i].payload.content # <<>>

\* the replies generateResponse produced (not the handler's catch block)
EngineReplies ==
    { mid \in AcceptedIds :
        \E i \in ResponsesTo(mid) : emitted[i].payload.content # HandlerFallbackText }

Concerning == {"sad", "lonely", "anxious"}

\* C9: for every accepted message the engine replied to, a mood-alert went to
\* the elder's family room if and only if the mood the keyword heuristic
\* detects in the user's text is sad, lonely or anxious.
C9_MoodAlertIffConcerning ==
    \A mid \in EngineReplies :
        LET alerts == { i \in DOMAIN emitted :
                          emitted[i].ev = "elder:mood-alert" /\ emitted[i].cause = mid }
        IN  IF analyzeMoodIndicators(UserTextOf(mid)) \in Concerning
            THEN /\ Cardinality(alerts) = 1
                 /\ \A i \in alerts : emitted[i].to.kind = "family"
            ELSE alerts = {}

\* C10: for every accepted message the engine replied to, exactly one
\* follow-up timer of 30 minutes is armed if the detected mood is sad, lonely
\* or anxious, and none otherwise.
C10_FollowUpIffConcerning ==
    \A mid \in EngineReplies :
        LET armed == { t \in timers : t.id = mid }
        IN  IF analyzeMoodIndicators(UserTextOf(mid)) \in Concerning
            THEN Cardinality(armed) = 1 /\ \A t \in armed : t.delay = 30
            ELSE armed = {}

(***************************************************************************)
(* Follow-up timers                                                        *)
(***************************************************************************)
\* --- one elder, messages that arm timers, replies that may come late ---
FollowTexts == {TextSadAlone, TextOk}
MaxFollowMessages == 2
MaxNow == 60

\* setTimeout callbacks run when they are due, before later events
NoTimerDue == \A t \in timers : t.due > now

\* no user message was stored at this instant yet: the clock is finer than
\* the pace of one elder's messages
QuietInstant ==
    \A a \in DOMAIN arrays : \A k \in DOMAIN arrays[a] :
        arrays[a][k].role = "user" => arrays[a][k].timestamp < now

NextFollowUp ==
    \/ Connect("c1")
    \/ currentElderId["c1"] = None /\ ElderJoin("c1", "e1", FALSE)
    \/ \E txt \in FollowTexts :
          /\ EmitCount("chat:received") < MaxFollowMessages
          /\ NoTimerDue
          /\ QuietInstant
          /\ HandleChatMessage("c1", None, txt, FALSE)
    \/ \E t \in inflight : NoTimerDue /\ ChatReplySettles(t, "text")
    \/ \E t \in inflight : NoTimerDue /\ WelcomeSettles(t, "text", FALSE)
    \/ \E t \in timers : FollowUpFires(t)
    \/ \E t \in inflight : FollowUpSettles(t, "text")
    \/ now < MaxNow /\ NoTimerDue /\ Tick

SpecFollowUp == Init /\ [][NextFollowUp]_vars

\* the timer whose callback runs in the step being taken
FiringTimers == timers \ timers'

\* the elder stored a user message after the timer was armed
SentSince(t) ==
    \E a \in DOMAIN arrays : \E k \in DOMAIN arrays[a] :
        /\ arrays[a][k].role = "user"
        /\ arrays[a][k].elderId = t.elderId
        /\ arrays[a][k].timestamp > t.due - t.delay

\* the callback returned without generating anything
FollowUpSkipped ==
    /\ arrays' = arrays
    /\ emitted' = emitted
    /\ inflight' = inflight

\* C11: when a follow-up timer expires, the follow-up is skipped if and only
\* if the elder has sent a message since the timer was armed; a proactive
\* message that is emitted goes to the elder's own room only and is the last
\* entry of that elder's log.
C11_FollowUpSkippedIffActive ==
    [][ /\ \A t \in FiringTimers : FollowUpSkipped <=> SentSince(t)
        /\ \A i \in DOMAIN NewEvents :
              NewEvents[i].ev = "companion:proactive" =>
                 /\ NewEvents[i].to = ToElder(NewEvents[i].payload.elderId)
                 /\ LET log == historyAfter(NewEvents[i].payload.elderId)
                    IN  log # <<>> /\ log[Len(log)] = NewEvents[i].payload
      ]_vars

(***************************************************************************)
(* Joining                                                                 *)
(***************************************************************************)
\* --- two sockets joining while one elder's log grows past a history page ---
MaxJoinMessages == 11

NextJoin ==
    \/ \E c \in Sockets : Connect(c)
    \/ \E c \in Sockets :
          currentElderId[c] = None /\ ElderJoin(c, "e1", FALSE)
    \/ /\ EmitCount("chat:received") < MaxJoinMessages
       /\ \A t \in inflight : t.kind # "message"
       /\ HandleChatMessage("c1", "e1", TextOk, FALSE)
    \/ \E t \in inflight : ChatReplySettles(t, "text")
    \/ \E t \in inflight, o \in Outcomes : WelcomeSettles(t, o, FALSE)

SpecJoin == Init /\ [][NextJoin]_vars

\* the sockets whose elder:join handler starts in the step being taken
JoiningSockets == { c \in Sockets : currentElderId[c] = None /\ currentElderId'[c] # None }

\* the join handlers that resume after their await in the step being taken
ResumedJoins == { t \in inflight \ inflight' : t.kind = "join" }

\* the positions of the welcome and history emits of the step being taken
JoinEmits == { i \in DOMAIN NewEvents : NewEvents[i].ev \in {"chat:response", "chat:history"} }

\* the step emits one welcome to socket c, stored as the only entry of e's log
WelcomeEmitted(c, e) ==
    /\ JoinEmits = {1}
    /\ NewEvents[1].ev = "chat:response"
    /\ NewEvents[1].to = ToSocket(c)
    /\ NewEvents[1].payload.role = "assistant"
    /\ NewEvents[1].payload.elderId = e
    /\ historyAfter(e) = <<NewEvents[1].payload>>

\* C12: a join for an elder whose stored log is empty generates one welcome
\* assistant message, stores it as the log's only entry and emits it to the
\* joining socket (when its generation is awaited, once the call settled); a
\* join for an elder with a stored log generates nothing, stores nothing and
\* emits the last min(20, length) stored messages in stored order.
C12_WelcomeOrHistory ==
    [][ /\ \A c \in JoiningSockets :
              LET e == currentElderId'[c]
                  log == getConversationHistory(e)
                  n == IF Len(log) < 20 THEN Len(log) ELSE 20
              IN  IF log = <<>>
                  THEN IF model
                       THEN /\ JoinEmits = {}
                            /\ \E t \in inflight' \ inflight :
                                  t.kind = "join" /\ t.socket = c /\ t.elderId = e
                            /\ historyAfter(e) = <<>>
                       ELSE WelcomeEmitted(c, e)
                  ELSE /\ JoinEmits = {1}
                       /\ NewEvents[1].ev = "chat:history"
                       /\ NewEvents[1].to = ToSocket(c)
                       /\ NewEvents[1].payload = [i \in 1..n |-> log[Len(log) - n + i]]
                       /\ historyAfter(e) = log
                       /\ inflight' = inflight
        /\ \A t \in ResumedJoins : WelcomeEmitted(t.socket, t.elderId)
      ]_vars

\* a socket joined an elder with more than 20 stored messages and got a page
\* of 20, and a welcome was emitted for another join
C12_Witness ==
    /\ \E i \in DOMAIN emitted :
          /\ emitted[i].ev = "chat:history"
          /\ Len(emitted[i].payload) = 20
          /\ Len(getConversationHistory("e1")) > 20
    /\ \E i \in DOMAIN emitted :
          emitted[i].ev = "chat:response" /\ emitted[i].cause \notin AcceptedIds

(***************************************************************************)
(* Registry: joining, rejoining, disconnecting                             *)
(***************************************************************************)
\* --- two sockets that join, rejoin as another elder, chat and disconnect ---
MaxRegistryIds == 5

NextRegistry ==
    \/ \E c \in Sockets : Connect(c)
    \/ \E e \in {None, "e1"} :
          nextId <= MaxRegistryIds /\ inflight = {} /\ ElderJoin("c1", e, FALSE)
    \/ nextId <= MaxRegistryIds /\ inflight = {} /\ ElderJoin("c2", "e1", FALSE)
    \/ /\ nextId <= MaxRegistryIds
       /\ inflight = {}
       /\ HandleChatMessage("c1", None, TextOk, FALSE)
    \/ \E c \in Sockets : Disconnect(c)
    \/ \E t \in inflight : ChatReplySettles(t, "text")
    \/ \E t \in inflight : WelcomeSettles(t, "text", FALSE)

SpecRegistry == Init /\ [][NextRegistry]_vars

\* the sockets whose disconnect handler runs in the step being taken
Disconnecting == { c \in Sockets : status[c] = "open" /\ status'[c] = "closed" }

\* C13: disconnecting a socket deletes the registry entry of the elder the
\* socket is bound to and no other, deletes nothing for a socket that never
\* joined as elder, and changes no conversation log, completion session,
\* timer or pending call and emits nothing; a history emitted at a later join
\* is the last page of the elder's log, which the disconnect left as it was.
C13_DisconnectKeepsHistory ==
    [][ /\ \A c \in Disconnecting :
              /\ arrays' = arrays
              /\ conversationHistory' = conversationHistory
              /\ activeSessions' = activeSessions
              /\ emitted' = emitted
              /\ inflight' = inflight /\ timers' = timers
              /\ \A e \in Elders :
                    onlineElders'[e] = IF e = currentElderId[c] THEN None
                                       ELSE onlineElders[e]
        /\ \A i \in DOMAIN NewEvents :
              NewEvents[i].ev = "chat:history" =>
                 LET log == getConversationHistory(currentElderId'[NewEvents[i].to.id])
                     n == IF Len(log) < 20 THEN Len(log) ELSE 20
                 IN  /\ NewEvents[i].payload = [k \in 1..n |-> log[Len(log) - n + k]]
                     /\ n > 0
      ]_vars

\* socket c1 chatted as e1 and disconnected; socket c2 then joined e1 and got
\* a history with a message c1 had sent
C13_Witness ==
    /\ status["c1"] = "closed"
    /\ currentElderId["c1"] = "e1"
    /\ onlineElders["e1"] = "c2"
    /\ \E i \in DOMAIN emitted :
          /\ emitted[i].ev = "chat:history"
          /\ emitted[i].rcpt = {"c2"}
          /\ \E k \in DOMAIN emitted[i].payload :
                /\ emitted[i].payload[k].role = "user"
                /\ \E j \in DOMAIN emitted :
                      /\ emitted[j].ev = "chat:received"
                      /\ emitted[j].cause = emitted[i].payload[k].id
                      /\ emitted[j].to = ToSocket("c1")

(***************************************************************************)
(* Clearing a conversation                                                 *)
(***************************************************************************)
\* the ids of the messages in an elder's log
storedIds(elderId) ==
    { getConversationHistory(elderId)[k].id : k \in DOMAIN getConversationHistory(elderId) }

\* variant: the log is dropped and the cached completion session is kept
clearConversationHistory_keepsSession(elderId) ==
    /\ conversationHistory' = [conversationHistory EXCEPT ![elderId] = NoArray]
    /\ cleared' = [cleared EXCEPT ![elderId] = @ \cup storedIds(elderId)]
    /\ UNCHANGED <<window, risk, vision, inbound, model, activeSessions, arrays, onlineElders, currentElderId,
                   status, familyRoom, elderRoom, inflight, timers, emitted, now, nextId>>

\* clearConversationHistory(elderId): conversationHistory.delete, then
\* clearSession(elderId): activeSessions.delete
clearConversationHistory(elderId) ==
    /\ conversationHistory' = [conversationHistory EXCEPT ![elderId] = NoArray]
    /\ activeSessions' = [activeSessions EXCEPT ![elderId] = NoSession]
    /\ cleared' = [cleared EXCEPT ![elderId] = @ \cup storedIds(elderId)]
    /\ UNCHANGED <<window, risk, vision, inbound, model, arrays, onlineElders, currentElderId, status,
                   familyRoom, elderRoom, inflight, timers, emitted, now, nextId>>

\* --- one socket chatting as two elders, logs cleared at any time ---
MaxClearMessages == 3

NextClear ==
    \/ Connect("c1")
    \/ \E d \in {None, "e1"} :
          /\ EmitCount("chat:received") < MaxClearMessages
          /\ Cardinality(inflight) < MaxInflight
          /\ HandleChatMessage("c1", d, TextOk, FALSE)
    \/ \E t \in inflight : ChatReplySettles(t, "text")
    \/ \E e \in Elders :
          /\ conversationHistory[e] # NoArray \/ activeSessions[e].exists
          /\ clearConversationHistory(e)

SpecClear == Init /\ [][NextClear]_vars

\* the elders whose log or completion session is deleted in the step being taken
Cleared ==
    { e \in Elders :
        \/ conversationHistory[e] # NoArray /\ conversationHistory'[e] = NoArray
        \/ activeSessions[e].exists /\ ~activeSessions'[e].exists }

\* C14: clearConversationHistory(e) leaves e without log and without cached
\* completion session in one step, and leaves the logs and the sessions of
\* every other elder as they were.
C14_ClearDropsLogAndSession ==
    [][ \A e \in Cleared :
          /\ historyAfter(e) = <<>>
          /\ ~activeSessions'[e].exists
          /\ \A x \in Elders \ {e} :
                /\ historyAfter(x) = getConversationHistory(x)
                /\ activeSessions'[x] = activeSessions[x]
      ]_vars

\* elder e1 was cleared while the default elder keeps a log and a session
C14_Witness ==
    /\ conversationHistory["e1"] = NoArray
    /\ ~activeSessions["e1"].exists
    /\ \E a \in DOMAIN arrays : arrays[a] # <<>> /\ arrays[a][1].elderId = "e1"
    /\ Len(getConversationHistory(DefaultElder)) >= 2
    /\ activeSessions[DefaultElder].exists
    /\ inflight = {}

(***************************************************************************)
(* Identity of stored messages                                             *)
(***************************************************************************)
\* the elder ids for which a socket issued elder:join (sockets stay in the
\* room until they disconnect)
JoinedElders == { e \in Elders : elderRoom[e] # {} }

\* C15: every stored message carries the default elder id or the id of an
\* elder for which some socket has issued an elder join.
C15_StoredUnderJoinedElder ==
    \A a \in DOMAIN arrays : \A k \in DOMAIN arrays[a] :
        arrays[a][k].elderId = DefaultElder \/ arrays[a][k].elderId \in JoinedElders

\* C16: a registry entry names an open socket whose current binding is that
\* elder: rejoining as another elder leaves no entry of the former elder that
\* names the socket, and no entry names a socket that has disconnected.
C16_RegistryFollowsBinding ==
    \A e \in Elders :
        onlineElders[e] # None =>
            /\ status[onlineElders[e]] = "open"
            /\ currentElderId[onlineElders[e]] = e

(***************************************************************************)
(* Camera mood (analyzeImageMood, the mood:image handler)                  *)
(***************************************************************************)
\* validMoods, each label with its characters
validMoods ==
    << [label |-> "happy",      text |-> <<"h","a","p","p","y">>],
       [label |-> "sad",        text |-> <<"s","a","d">>],
       [label |-> "anxious",    text |-> <<"a","n","x","i","o","u","s">>],
       [label |-> "lonely",     text |-> <<"l","o","n","e","l","y">>],
       [label |-> "neutral",    text |-> <<"n","e","u","t","r","a","l">>],
       [label |-> "distressed", text |-> <<"d","i","s","t","r","e","s","s","e","d">>] >>

\* for (const mood of validMoods) if (text.includes(mood)) return mood; return 'neutral'
RECURSIVE firstContainedMood(_, _)
firstContainedMood(text, i) ==
    IF i > Len(validMoods) THEN "neutral"
    ELSE IF includes(text, validMoods[i].text) THEN validMoods[i].label
    ELSE firstContainedMood(text, i + 1)

\* variant: the trimmed, lower-cased text is trusted to be a label
imageMoodOfText_unvalidated(responseText) ==
    LET text == toLowerCase(trim(responseText))
    IN  IF \E i \in DOMAIN validMoods : validMoods[i].text = text
        THEN validMoods[CHOOSE i \in DOMAIN validMoods : validMoods[i].text = text].label
        ELSE IF text = <<>> THEN "neutral" ELSE "unknown"

\* analyzeImageMood from `const text = result.response.text().trim().toLowerCase()` on
imageMoodOfText(responseText) ==
    LET text == toLowerCase(trim(responseText))
    IN  IF \E i \in DOMAIN validMoods : validMoods[i].text = text
        THEN validMoods[CHOOSE i \in DOMAIN validMoods : validMoods[i].text = text].label
        ELSE firstContainedMood(text, 1)

\* what model.generateContent can do: resolve with a text, or reject (an
\* error of the service, or its timeout)
VisionReply(kind, text) == [kind |-> kind, text |-> text]
NotConfigured == VisionReply("not configured", <<>>)
VisionThrows == VisionReply("throws", <<>>)

VisionTexts ==
    { <<"s","a","d">>,
      <<" ","A","n","x","i","o","u","s","\n">>,
      <<"l","o","n","e","l","y",","," ","s","a","d">>,
      <<"q","u","i","t","e"," ","j","o","y","f","u","l">>,
      <<"D","i","s","t","r","e","s","s","e","d">>,
      <<"n","e","u","t","r","a","l">>,
      <<>> }

VisionReplies == {VisionThrows} \cup { VisionReply("text", t) : t \in VisionTexts }

\* analyzeImageMood(imageBase64), given what the vision service did
analyzeImageMood(reply) ==
    IF reply.kind = "not configured" THEN "happy"
    ELSE IF reply.kind = "throws" THEN "neutral"
    ELSE imageMoodOfText(reply.text)

CameraFactor == <<"Distressed mood detected via camera">>

\* variant: distress raises the mood alert only
moodImageEvents_noEscalation(c, elderId, cause, detectedMood) ==
    <<Event("mood:detected", ToSocket(c), cause,
            [source |-> "camera", mood |-> detectedMood, timestamp |-> now])>>
    \o (IF detectedMood \in {"sad", "lonely", "anxious", "distressed"}
        THEN <<Event("elder:mood-alert", ToFamily(elderId), cause,
                     [elderId |-> elderId, mood |-> detectedMood,
                      source |-> "camera", timestamp |-> now])>>
        ELSE <<>>)

\* the emits of the mood:image handler once analyzeImageMood returned
moodImageEvents(c, elderId, cause, detectedMood) ==
    <<Event("mood:detected", ToSocket(c), cause,
            [source |-> "camera", mood |-> detectedMood, timestamp |-> now])>>
    \o (IF detectedMood \in {"sad", "lonely", "anxious", "distressed"}
        THEN (IF detectedMood = "distressed"
              THEN <<Event("elder:risk-alert", ToFamily(elderId), cause,
                           [elderId |-> elderId, level |-> "critical",
                            factors |-> <<CameraFactor>>, timestamp |-> now])>>
              ELSE <<>>)
             \o <<Event("elder:mood-alert", ToFamily(elderId), cause,
                        [elderId |-> elderId, mood |-> detectedMood,
                         source |-> "camera", timestamp |-> now])>>
        ELSE <<>>)

\* socket.on('mood:image'): to its end when no service is configured, else to
\* the await of model.generateContent
MoodImage(c, dataElderId) ==
    /\ status[c] = "open"
    /\ LET elderId == IF dataElderId # None THEN dataElderId
                      ELSE IF currentElderId[c] # None THEN currentElderId[c]
                      ELSE DefaultElder
           iid == nextId
       IN  IF ~model
           THEN LET detectedMood == analyzeImageMood(NotConfigured)
                IN  /\ vision' = [calls |-> vision.calls + 1, reply |-> NotConfigured,
                                  mood |-> detectedMood]
                    /\ emitted' = emitted \o moodImageEvents(c, elderId, iid, detectedMood)
                    /\ UNCHANGED inflight
           ELSE /\ inflight' = inflight \cup
                     {Task("image", iid, c, elderId, NoArray, <<>>, NoMood, 0)}
                /\ UNCHANGED <<vision, emitted>>
    /\ nextId' = nextId + 1
    /\ UNCHANGED <<window, risk, inbound, cleared, model, activeSessions, conversationHistory,
                   arrays,
                   onlineElders, currentElderId, status, familyRoom, elderRoom,
                   timers, now>>

\* the rest of the mood:image handler, once model.generateContent settled
ImageSettles(t, reply) ==
    /\ t \in inflight
    /\ t.kind = "image"
    /\ LET detectedMood == analyzeImageMood(reply)
       IN  /\ vision' = [calls |-> vision.calls + 1, reply |-> reply, mood |-> detectedMood]
           /\ emitted' = emitted \o moodImageEvents(t.socket, t.elderId, t.id, detectedMood)
    /\ inflight' = inflight \ {t}
    /\ UNCHANGED <<window, risk, inbound, cleared, model, activeSessions, conversationHistory,
                   arrays,
                   onlineElders, currentElderId, status, familyRoom, elderRoom,
                   timers, now, nextId>>

\* --- an elder sending camera images and a message, a family socket observing ---
MaxImages == 2

ImagesSoFar ==
    EmitCount("mood:detected") + Cardinality({ t \in inflight : t.kind = "image" })

NextImage ==
    \/ \E c \in Sockets : Connect(c)
    \/ currentElderId["c1"] = None /\ ElderJoin("c1", "e1", FALSE)
    \/ \E e \in Elders :
          (\A x \in Elders : "c2" \notin familyRoom[x]) /\ FamilyJoin("c2", e)
    \/ /\ EmitCount("chat:received") < 1
       /\ HandleChatMessage("c1", None, TextLonelyDie, FALSE)
    \/ \E t \in inflight : ChatReplySettles(t, "text")
    \/ \E t \in inflight : WelcomeSettles(t, "text", FALSE)
    \/ \E d \in {None, "e1"} : ImagesSoFar < MaxImages /\ MoodImage("c1", d)
    \/ \E t \in inflight, r \in VisionReplies : ImageSettles(t, r)

SpecImage == Init /\ [][NextImage]_vars

\* a step in which analyzeImageMood returned and the mood:image handler ran on
ImageCompletes == vision'.calls # vision.calls

ConcerningCameraMoods == {"sad", "lonely", "anxious", "distressed"}

\* the family events among the emits of the step
CameraAlerts(ev) == { i \in DOMAIN NewEvents : NewEvents[i].ev = ev }

\* C17: a camera frame whose analysis returned yields exactly one mood:detected
\* with source camera and the detected mood to the sending socket; one
\* mood-alert (source camera) to the family room iff the mood is sad, lonely,
\* anxious or distressed; one critical risk-alert to the family room iff the
\* mood is distressed; no other event.  No conversation log changes and the
\* text risk assessment has no part in it.
C17_CameraMoodEvents ==
    [][ ImageCompletes =>
          LET new == NewEvents
              mood == vision'.mood
              moodAlerts == CameraAlerts("elder:mood-alert")
              riskAlerts == CameraAlerts("elder:risk-alert")
          IN  /\ CameraAlerts("mood:detected") = {1}
              /\ new[1].to.kind = "socket"
              /\ new[1].payload.source = "camera"
              /\ new[1].payload.mood = mood
              /\ DOMAIN new = {1} \cup moodAlerts \cup riskAlerts
              /\ Cardinality(moodAlerts) = (IF mood \in ConcerningCameraMoods THEN 1 ELSE 0)
              /\ Cardinality(riskAlerts) = (IF mood = "distressed" THEN 1 ELSE 0)
              /\ \A i \in moodAlerts :
                    /\ new[i].to = ToFamily(new[i].payload.elderId)
                    /\ new[i].payload.mood = mood
                    /\ new[i].payload.source = "camera"
              /\ \A i \in riskAlerts :
                    /\ new[i].to = ToFamily(new[i].payload.elderId)
                    /\ new[i].payload.level = "critical"
              /\ arrays' = arrays
              /\ conversationHistory' = conversationHistory
              /\ window' = window /\ risk' = risk
      ]_vars

\* the family socket received a critical risk-alert for a distressed frame, and
\* a frame read as sad raised a mood-alert and no risk-alert although the
\* elder's stored text assesses as critical
C17_Witness ==
    /\ \E i \in DOMAIN emitted :
          /\ emitted[i].ev = "elder:risk-alert"
          /\ emitted[i].payload.factors = <<CameraFactor>>
          /\ emitted[i].rcpt = {"c2"}
    /\ \E i \in DOMAIN emitted :
          /\ emitted[i].ev = "mood:detected"
          /\ emitted[i].payload.mood = "sad"
          /\ \E j \in DOMAIN emitted :
                emitted[j].ev = "elder:mood-alert" /\ emitted[j].cause = emitted[i].cause
          /\ \A j \in DOMAIN emitted :
                emitted[j].cause = emitted[i].cause => emitted[j].ev # "elder:risk-alert"
          /\ \E j \in 1..(i - 1) :
                /\ emitted[j].ev = "elder:risk-alert"
                /\ emitted[j].payload.level = "critical"
                /\ emitted[j].payload.factors # <<CameraFactor>>

MoodLabels == { validMoods[i].label : i \in DOMAIN validMoods }

\* the labels (by position in validMoods) that occur in a text
LabelsIn(text) == { i \in DOMAIN validMoods : includes(text, validMoods[i].text) }

\* the last analyzeImageMood call got a text from the vision service
VisionAnswered == vision.calls > 0 /\ vision.reply.kind = "text"

\* C18: whatever text the vision call returns, analyzeImageMood returns one of
\* the six labels: the label the trimmed, lower-cased text is equal to; else
\* the label earliest in the list happy, sad, anxious, lonely, neutral,
\* distressed among those the text contains; else neutral.
C18_ClosedVocabulary ==
    VisionAnswered =>
        LET text == toLowerCase(trim(vision.reply.text))
            found == LabelsIn(text)
        IN  /\ vision.mood \in MoodLabels
            /\ \A i \in DOMAIN validMoods :
                  text = validMoods[i].text => vision.mood = validMoods[i].label
            /\ (found # {} /\ \A i \in DOMAIN validMoods : text # validMoods[i].text)
                  => /\ vision.mood = validMoods[CHOOSE i \in found : \A j \in found : i <= j].label
            /\ found = {} => vision.mood = "neutral"

\* a reply naming two labels resolved to the one earlier in the list, not the
\* one earlier in the text
C18_Witness ==
    /\ VisionAnswered
    /\ vision.reply.text = <<"l","o","n","e","l","y",","," ","s","a","d">>
    /\ vision.mood = "sad"

\* C19: analyzeImageMood returns neutral when the vision service is not
\* available (not configured, or the call throws or times out) and when its
\* output contains none of the six labels.
C19_NeutralOnFailure ==
    vision.calls > 0 =>
        ((\/ vision.reply.kind \in {"not configured", "throws"}
          \/ /\ vision.reply.kind = "text"
             /\ LabelsIn(toLowerCase(trim(vision.reply.text))) = {})
         => vision.mood = "neutral")

\* the part of C19 that holds: a call that throws or times out, and output
\* without a label
C19_NeutralWhenConfigured ==
    (vision.calls > 0 /\ vision.reply.kind # "not configured") =>
        ((\/ vision.reply.kind = "throws"
          \/ LabelsIn(toLowerCase(trim(vision.reply.text))) = {})
         => vision.mood = "neutral")

(***************************************************************************)
(* Realtime gateway: routine:acknowledge                                   *)
(***************************************************************************)
Routines == {"r1", "r2"}

\* the instruction the handler hands to generateResponse as the user message
RoutinePrompt ==
    <<"[","S","Y","S","T","E","M",":"," ","E","l","d","e","r"," ","j","u",
      "s","t"," ","c","o","m","p","l","e","t","e","d"," ","a"," ","r","o","u","t",
      "i","n","e","."," ","G","i","v","e"," ","b","r","i","e","f"," ","p","o","s",
      "i","t","i","v","e"," ","r","e","i","n","f","o","r","c","e","m","e","n","t",
      ".","]">>

\* the ChatMessage of the handler, with metadata { routineRelated, routineId }
routineMessage(id, elderId, encouragement, routineId) ==
    [id |-> id, elderId |-> elderId, role |-> "assistant",
     content |-> encouragement.message, timestamp |-> now,
     metadata |-> [routineRelated |-> TRUE, routineId |-> routineId]]

\* variant: the family room is not told
routineEvents_noFamily(c, elderId, cause, message, routineId) ==
    << Event("chat:response", ToSocket(c), cause, message) >>

\* socket.emit('chat:response', message); io.to(family).emit('routine:completed', ...)
routineEvents(c, elderId, cause, message, routineId) ==
    << Event("chat:response", ToSocket(c), cause, message),
       Event("routine:completed", ToFamily(elderId), cause,
             [elderId |-> elderId, routineId |-> routineId, completedAt |-> now]) >>

\* socket.on('routine:acknowledge'): to its end when no service is configured,
\* else to the await of session.sendMessage (the task keeps the routine id as
\* its content)
RoutineAcknowledge(c, dataElderId, routineId) ==
    /\ status[c] = "open"
    /\ LET elderId == IF dataElderId # None THEN dataElderId
                      ELSE IF currentElderId[c] # None THEN currentElderId[c]
                      ELSE DefaultElder
           rid == nextId
           detectedMood == analyzeMoodIndicators(RoutinePrompt)
       IN  IF ~model
           THEN LET encouragement == generateSimulatedResponse(RoutinePrompt, detectedMood)
                    message == routineMessage(rid + 1, elderId, encouragement, routineId)
                IN  /\ emitted' = emitted \o routineEvents(c, elderId, rid, message, routineId)
                    /\ nextId' = rid + 2
                    /\ UNCHANGED <<activeSessions, inflight>>
           ELSE /\ activeSessions' =
                     getOrCreateSession(elderId, contextIds(getConversationHistory(elderId)))
                /\ inflight' = inflight \cup
                     {Task("routine", rid, c, elderId, NoArray, <<routineId>>, detectedMood, 0)}
                /\ nextId' = rid + 1
                /\ UNCHANGED emitted
    /\ UNCHANGED <<riskVars, model, conversationHistory, arrays, onlineElders,
                   currentElderId, status, familyRoom, elderRoom, timers, now>>

\* the rest of the routine:acknowledge handler, once session.sendMessage settled
RoutineSettles(t, outcome) ==
    /\ t \in inflight
    /\ t.kind = "routine"
    /\ LET encouragement == settledResponse(outcome, t.detectedMood)
           message == routineMessage(nextId, t.elderId, encouragement, t.content[1])
       IN  emitted' = emitted \o
               routineEvents(t.socket, t.elderId, t.id, message, t.content[1])
    /\ inflight' = inflight \ {t}
    /\ nextId' = nextId + 1
    /\ UNCHANGED <<riskVars, model, activeSessions, conversationHistory, arrays,
                   onlineElders, currentElderId, status, familyRoom, elderRoom,
                   timers, now>>

\* --- an elder acknowledging routines and chatting, a family socket observing ---
MaxRoutines == 2

RoutinesSoFar ==
    EmitCount("routine:completed") + Cardinality({ t \in inflight : t.kind = "routine" })

NextRoutine ==
    \/ \E c \in Sockets : Connect(c)
    \/ currentElderId["c1"] = None /\ ElderJoin("c1", "e1", FALSE)
    \/ \E e \in Elders :
          (\A x \in Elders : "c2" \notin familyRoom[x]) /\ FamilyJoin("c2", e)
    \/ /\ EmitCount("chat:received") < 1
       /\ HandleChatMessage("c1", None, TextOk, FALSE)
    \/ \E t \in inflight : ChatReplySettles(t, "text")
    \/ \E t \in inflight : WelcomeSettles(t, "text", FALSE)
    \/ \E d \in {None, "e1"}, r \in Routines :
          RoutinesSoFar < MaxRoutines /\ RoutineAcknowledge("c1", d, r)
    \/ \E t \in inflight, o \in Outcomes : RoutineSettles(t, o)

SpecRoutine == Init /\ [][NextRoutine]_vars

\* a routine:acknowledge handler suspends at its await, or runs to its end
RoutineSuspends == \E t \in inflight' \ inflight : t.kind = "routine"

FinishedRoutines == { t \in inflight \ inflight' : t.kind = "routine" }

RoutineEnds ==
    \/ FinishedRoutines # {}
    \/ \E i \in DOMAIN NewEvents :
          \/ NewEvents[i].ev = "routine:completed"
          \/ /\ NewEvents[i].ev = "chat:response"
             /\ "metadata" \in DOMAIN NewEvents[i].payload

\* C20: a routine acknowledgement emits nothing until its encouragement is
\* generated, and then exactly two events: one chat:response carrying an
\* assistant message to the acknowledging socket, and one routine:completed
\* {elderId, routineId, completedAt} to that elder's family room.  No
\* conversation log changes in either step.
C20_RoutineAcknowledged ==
    [][ /\ RoutineSuspends =>
              /\ NewEvents = <<>>
              /\ arrays' = arrays /\ conversationHistory' = conversationHistory
        /\ RoutineEnds =>
              LET new == NewEvents
              IN  /\ Len(new) = 2
                  /\ new[1].ev = "chat:response"
                  /\ new[2].ev = "routine:completed"
                  /\ new[1].to.kind = "socket"
                  /\ status[new[1].to.id] # "idle"
                  /\ \A t \in FinishedRoutines :
                        /\ new[1].to = ToSocket(t.socket)
                        /\ new[1].payload.elderId = t.elderId
                        /\ new[2].payload.routineId = t.content[1]
                  /\ new[1].payload.role = "assistant"
                  /\ new[1].payload.metadata.routineId = new[2].payload.routineId
                  /\ new[2].to = ToFamily(new[1].payload.elderId)
                  /\ DOMAIN new[2].payload = {"elderId", "routineId", "completedAt"}
                  /\ new[2].payload.elderId = new[1].payload.elderId
                  /\ new[2].payload.completedAt = now
                  /\ arrays' = arrays /\ conversationHistory' = conversationHistory
      ]_vars

\* the family socket was told of a completed routine of e1, the elder's socket
\* got the encouragement, and e1's log has messages but not that one
C20_Witness ==
    \E i, j \in DOMAIN emitted :
        /\ emitted[i].ev = "chat:response"
        /\ emitted[j].ev = "routine:completed"
        /\ emitted[j].cause = emitted[i].cause
        /\ emitted[i].rcpt = {"c1"}
        /\ emitted[j].rcpt = {"c2"}
        /\ emitted[j].payload.elderId = "e1"
        /\ getConversationHistory("e1") # <<>>
        /\ \A k \in DOMAIN getConversationHistory("e1") :
              getConversationHistory("e1")[k].id # emitted[i].payload.id

(***************************************************************************)
(* Chat messages without content                                           *)
(***************************************************************************)
\* socket.on('chat:message') for an event whose data has no content:
\* data.content?.trim() is undefined and the handler returns
ChatMessageWithoutContent(c, dataElderId) ==
    /\ status[c] = "open"
    /\ inbound' = Inbound(FALSE, <<>>)
    /\ UNCHANGED <<window, risk, vision, cleared, gatewayVars>>

BlankTexts == { <<>>, <<" ">>, TextBlank, <<"\t","\n"," ">> }

MaxBlankMessages == 2

\* --- an elder whose messages are blank now and then, a family socket observing ---
NextBlank ==
    \/ \E c \in Sockets : Connect(c)
    \/ \E e \in {None, "e1"} :
          currentElderId["c1"] = None /\ ElderJoin("c1", e, FALSE)
    \/ (\A x \in Elders : "c2" \notin familyRoom[x]) /\ FamilyJoin("c2", "e1")
    \/ \E d \in {None, "e1"}, txt \in BlankTexts \cup {TextSadAlone} :
          /\ EmitCount("chat:received") < MaxBlankMessages
          /\ HandleChatMessage("c1", d, txt, FALSE)
    \/ \E d \in {None, "e1"} : ChatMessageWithoutContent("c1", d)
    \/ \E t \in inflight : ChatReplySettles(t, "text")
    \/ \E t \in inflight : WelcomeSettles(t, "text", FALSE)

SpecBlank == Init /\ [][NextBlank]_vars

\* the content of a chat:message event is absent, empty or only whitespace
BlankContent(data) ==
    \/ ~data.present
    \/ \A i \in DOMAIN data.content : data.content[i] \in Whitespace

\* a chat:message event without content arrives
BlankArrives == inbound' # inbound /\ BlankContent(inbound')

\* C21: a chat:message event whose content is absent, empty or only
\* whitespace changes no log, registry entry, completion session, timer or
\* pending call, and emits nothing.
C21_BlankMessageIgnored ==
    [][ BlankArrives => UNCHANGED <<window, risk, vision, cleared, gatewayVars>> ]_vars

\* a whitespace-only message arrived after an accepted one, while the reply to
\* that one is awaited or its follow-up timer is armed
C21_Witness ==
    /\ inbound.present
    /\ inbound.content # <<>>
    /\ BlankContent(inbound)
    /\ getConversationHistory("e1") # <<>>
    /\ inflight # {} \/ timers # {}

(***************************************************************************)
(* Interleavings of handlers for one elder                                 *)
(***************************************************************************)
\* the user messages in an elder's log
UserMessages(log) == { log[k] : k \in { i \in DOMAIN log : log[i].role = "user" } }

\* C22: a user message that is in an elder's log is still in it after every
\* step, unless the step evicted it at the 50-entry cap or cleared the log.
C22_UserMessageKept ==
    [][ \A e \in Elders :
          LET before == getConversationHistory(e)
              after == historyAfter(e)
          IN  \A m \in UserMessages(before) :
                 \/ m \in UserMessages(after)
                 \/ Len(before) >= HistoryCap /\ Len(after) = HistoryCap
                 \/ conversationHistory'[e] = NoArray
      ]_vars

\* C23: no message that an elder's log held when it was cleared is in that
\* elder's log afterwards, and none is among the messages the elder's cached
\* completion session was seeded with.
C23_ClearedStaysCleared ==
    \A e \in Elders :
        /\ storedIds(e) \cap cleared[e] = {}
        /\ activeSessions[e].exists =>
              \A i \in DOMAIN activeSessions[e].seed :
                  activeSessions[e].seed[i] \notin cleared[e]

\* the part about the session alone
C23_SessionNotSeededWithCleared ==
    \A e \in Elders :
        activeSessions[e].exists =>
            \A i \in DOMAIN activeSessions[e].seed :
                activeSessions[e].seed[i] \notin cleared[e]

(***************************************************************************)
(* Order of stored messages and of the events of one message               *)
(***************************************************************************)
OrderTexts == {TextOk, TextSadAlone}
MaxOrderMessages == 3

\* --- one elder socket sending messages faster than the replies return ---
NextOrder ==
    \/ Connect("c1")
    \/ currentElderId["c1"] = None /\ ElderJoin("c1", "e1", FALSE)
    \/ \E txt \in OrderTexts, err \in BOOLEAN :
          /\ EmitCount("chat:received") < MaxOrderMessages
          /\ err => HandlerFallbacks < MaxErrors
          /\ Cardinality(inflight) < MaxInflight
          /\ HandleChatMessage("c1", None, txt, err)
    \/ \E t \in inflight, o \in Outcomes : ChatReplySettles(t, o)
    \/ \E t \in inflight : WelcomeSettles(t, "text", FALSE)

SpecOrder == Init /\ [][NextOrder]_vars

\* the chat:message handlers that resume in this step
FinishedMessages == { t \in inflight \ inflight' : t.kind = "message" }

\* the user messages of a log are in the order of receipt (ids are issued in
\* that order)
UsersInOrder(log) ==
    \A i, j \in DOMAIN log :
        (i < j /\ log[i].role = "user" /\ log[j].role = "user") => log[i].id < log[j].id

\* no reply stands before the user message it answers: events holds, for each
\* reply, the chat:response that carries it and names the message
RepliesFollow(log, events) ==
    \A j \in DOMAIN log, k \in DOMAIN events :
        (/\ events[k].ev = "chat:response"
         /\ events[k].payload.id = log[j].id)
        => \A i \in DOMAIN log : log[i].id = events[k].cause => i < j

\* C24: in every log the user messages stand in the order they were
\* received; a reply is appended in the step in which its completion call
\* returns, as the last entry at that moment; and no reply stands before the
\* user message it answers.
C24_CompletionOrder ==
    [][ /\ \A e \in Elders :
              /\ UsersInOrder(historyAfter(e))
              /\ RepliesFollow(historyAfter(e), emitted')
        /\ \A t \in FinishedMessages :
              LET log == historyAfter(t.elderId)
              IN  /\ log # <<>>
                  /\ log[Len(log)].role = "assistant"
                  /\ \E k \in DOMAIN NewEvents :
                        /\ NewEvents[k].ev = "chat:response"
                        /\ NewEvents[k].cause = t.id
                        /\ NewEvents[k].payload = log[Len(log)]
      ]_vars

\* the reply to the first message was stored after the second user message,
\* and the reply to the second after that
C24_Witness ==
    \E e \in Elders :
        LET log == getConversationHistory(e)
        IN  \E i \in DOMAIN log :
               /\ i + 3 <= Len(log)
               /\ log[i].role = "user" /\ log[i + 1].role = "user"
               /\ log[i + 2].role = "assistant" /\ log[i + 3].role = "assistant"
               /\ \E k, l \in DOMAIN emitted :
                     /\ emitted[k].ev = "chat:response" /\ emitted[l].ev = "chat:response"
                     /\ emitted[k].payload.id = log[i + 2].id
                     /\ emitted[l].payload.id = log[i + 3].id
                     /\ emitted[k].cause = log[i + 1].id
                     /\ emitted[l].cause = log[i].id

\* what the sender of message mid was sent about it so far, in order
SenderEventsAfter(mid) ==
    LET About(x) == x.cause = mid /\ x.to.kind = "socket"
    IN  SelectSeq(emitted', About)

\* an event of the sender's sequence is the k-th of: received, typing on,
\* typing off, response
IsStep(x, k) ==
    CASE k = 1 -> x.ev = "chat:received"
      [] k = 2 -> x.ev = "chat:typing" /\ x.payload.isTyping
      [] k = 3 -> x.ev = "chat:typing" /\ ~x.payload.isTyping
      [] k = 4 -> x.ev = "chat:response"
      [] OTHER -> FALSE

\* the chat:response events of accepted messages among the emits of the step
NewResponses ==
    { k \in DOMAIN NewEvents :
        /\ NewEvents[k].ev = "chat:response"
        /\ \E i \in DOMAIN emitted' :
              emitted'[i].ev = "chat:received" /\ emitted'[i].cause = NewEvents[k].cause }

\* the message of a chat:response is the last entry of its elder's log
StoredLast(message) ==
    LET log == historyAfter(message.elderId)
    IN  log # <<>> /\ log[Len(log)] = message

\* C25 (amended): the sender of an accepted message is sent, about that
\* message and in this order, chat:received, chat:typing true, chat:typing
\* false and chat:response, on one socket; when the response is emitted, its
\* message is already the last entry of the elder's log, unless it is the
\* generic fallback of the handler's catch block, which is not stored.
C25_EventOrder ==
    [][ /\ \A i \in DOMAIN emitted' :
              emitted'[i].ev = "chat:received" =>
                  LET seq == SenderEventsAfter(emitted'[i].cause)
                  IN  /\ Len(seq) <= 4
                      /\ \A k \in DOMAIN seq :
                            IsStep(seq[k], k) /\ seq[k].to = emitted'[i].to
        /\ \A k \in NewResponses :
              /\ Len(SenderEventsAfter(NewEvents[k].cause)) = 4
              /\ NewEvents[k].payload.role = "assistant"
              /\ NewEvents[k].payload.content # HandlerFallbackText
                    => StoredLast(NewEvents[k].payload)
              /\ NewEvents[k].payload.content = HandlerFallbackText
                    => \A e \in Elders : \A j \in DOMAIN historyAfter(e) :
                          historyAfter(e)[j].id # NewEvents[k].payload.id
      ]_vars

\* C25 as stated: the message of every response to an accepted message is in
\* the log when the response is emitted.
C25_ResponseStoredFirst ==
    [][ \A k \in NewResponses : StoredLast(NewEvents[k].payload) ]_vars

\* the socket got typing on for a second message before typing off and the
\* response for the first, and both messages were answered and the replies
\* stored
C25_Witness ==
    \E i, j, k, l \in DOMAIN emitted :
        /\ i < j /\ j < k /\ k < l
        /\ emitted[i].ev = "chat:typing" /\ emitted[i].payload.isTyping
        /\ emitted[j].ev = "chat:typing" /\ emitted[j].payload.isTyping
        /\ emitted[k].ev = "chat:response" /\ emitted[k].cause = emitted[i].cause
        /\ emitted[l].ev = "chat:response" /\ emitted[l].cause = emitted[j].cause
        /\ \E e \in Elders :
              \E m, n \in DOMAIN getConversationHistory(e) :
                 /\ getConversationHistory(e)[m] = emitted[k].payload
                 /\ getConversationHistory(e)[n] = emitted[l].payload

(***************************************************************************)
(* Disconnect with work pending                                            *)
(***************************************************************************)
MaxGoneMessages == 2

\* --- an elder who leaves while replies are awaited and timers are armed ---
NextGone ==
    \/ Connect("c1")
    \/ currentElderId["c1"] = None /\ ElderJoin("c1", "e1", FALSE)
    \/ \E txt \in FollowTexts :
          /\ EmitCount("chat:received") < MaxGoneMessages
          /\ NoTimerDue
          /\ QuietInstant
          /\ HandleChatMessage("c1", None, txt, FALSE)
    \/ Disconnect("c1")
    \/ \E t \in inflight : NoTimerDue /\ ChatReplySettles(t, "text")
    \/ \E t \in inflight : NoTimerDue /\ WelcomeSettles(t, "text", FALSE)
    \/ \E t \in timers : FollowUpFires(t)
    \/ \E t \in inflight : FollowUpSettles(t, "text")
    \/ now < MaxNow /\ NoTimerDue /\ Tick

SpecGone == Init /\ [][NextGone]_vars

ClosedSockets == { c \in Sockets : status[c] = "closed" }

\* the elder's connection was closed and no socket is open
Offline(e) ==
    /\ elderRoom[e] = {}
    /\ ClosedSockets # {}
    /\ \A c \in Sockets : status[c] # "open"

\* the last entry of the elder's log after the step is an assistant message
\* made in this step
AppendedNow(e) ==
    LET log == historyAfter(e)
    IN  /\ log # <<>>
        /\ log[Len(log)].role = "assistant"
        /\ log[Len(log)].id >= nextId
        /\ log[Len(log)].elderId = e

\* the follow-up callback found a last entry younger than its delay
LastEntryYoung(t) ==
    LET log == getConversationHistory(t.elderId)
    IN  log # <<>> /\ now - log[Len(log)].timestamp < t.delay

\* C26 (amended): a disconnect cancels no pending completion call and no
\* armed timer.  A call of a closed socket's message still settles: its
\* reply is appended to the elder's log and no emit reaches the closed
\* socket.  A timer of an elder without connection still fires: unless the
\* callback skips the follow-up by its test of the log's last entry, its
\* message is appended to the log (when its own completion call has
\* settled) and its emit reaches no socket.
C26_DisconnectCancelsNothing ==
    [][ /\ Disconnecting # {} => (inflight' = inflight /\ timers' = timers)
        /\ \A k \in DOMAIN NewEvents : NewEvents[k].rcpt \cap ClosedSockets = {}
        /\ \A t \in FinishedMessages :
              status[t.socket] = "closed" => AppendedNow(t.elderId)
        /\ \A t \in FiringTimers :
              Offline(t.elderId) =>
                  IF LastEntryYoung(t) THEN FollowUpSkipped
                  ELSE IF model
                  THEN \E f \in inflight' \ inflight : f.kind = "followup" /\ f.id = t.id
                  ELSE /\ AppendedNow(t.elderId)
                       /\ \A k \in DOMAIN NewEvents : NewEvents[k].rcpt = {}
        /\ \A f \in inflight \ inflight' :
              (f.kind = "followup" /\ Offline(f.elderId)) =>
                  /\ AppendedNow(f.elderId)
                  /\ \A k \in DOMAIN NewEvents : NewEvents[k].rcpt = {}
      ]_vars

\* C26 as stated: every timer that fires for an elder without connection
\* leads to an assistant message in the log.
C26_TimerAlwaysAppends ==
    [][ \A t \in FiringTimers :
          Offline(t.elderId) =>
              \/ AppendedNow(t.elderId)
              \/ \E f \in inflight' \ inflight : f.kind = "followup" /\ f.id = t.id
      ]_vars

\* after the elder's socket closed, the reply to its message was stored and
\* emitted to nobody, and later a follow-up was stored and emitted to nobody
C26_Witness ==
    /\ status["c1"] = "closed"
    /\ \E i, j \in DOMAIN emitted :
          /\ i < j
          /\ emitted[i].ev = "chat:response" /\ emitted[i].rcpt = {}
          /\ emitted[j].ev = "companion:proactive" /\ emitted[j].rcpt = {}
          /\ \E m, n \in DOMAIN getConversationHistory("e1") :
                /\ getConversationHistory("e1")[m] = emitted[i].payload
                /\ getConversationHistory("e1")[n] = emitted[j].payload

\* the chat:typing events emitted to a socket so far, in order
TypingEventsTo(c) ==
    LET Typing(x) == x.ev = "chat:typing" /\ x.to = ToSocket(c)
    IN  SelectSeq(emitted, Typing)

\* C27: when the last chat:typing event emitted to a socket says isTyping
\* false, no chat:message handler of that socket is still awaiting its reply.
C27_TypingOffMeansIdle ==
    \A c \in Sockets :
        LET typing == TypingEventsTo(c)
        IN  (typing # <<>> /\ ~typing[Len(typing)].payload.isTyping)
                => \A t \in inflight : ~(t.kind = "message" /\ t.socket = c)

(***************************************************************************)
(* Registry presence                                                       *)
(***************************************************************************)
\* C28: the elder an open socket is bound to has an entry in the registry.
C28_BoundElderPresent ==
    \A c \in Sockets :
        (status[c] = "open" /\ currentElderId[c] # None)
            => onlineElders[currentElderId[c]] # None

(***************************************************************************)
(* Family rooms                                                            *)
(***************************************************************************)
DistressedReply == VisionReply("text", <<"D","i","s","t","r","e","s","s","e","d">>)

MaxFamilyEvents == 1

\* --- an elder socket acting for two elders, a family socket observing one ---
NextFamily ==
    \/ \E c \in Sockets : Connect(c)
    \/ currentElderId["c1"] = None /\ ElderJoin("c1", "e1", FALSE)
    \/ \E e \in Elders :
          (\A x \in Elders : "c2" \notin familyRoom[x]) /\ FamilyJoin("c2", e)
    \/ \E d \in {None, DefaultElder} :
          /\ EmitCount("chat:received") < MaxFamilyEvents
          /\ HandleChatMessage("c1", d, TextLonelyDie, FALSE)
    \/ \E d \in {None, DefaultElder} :
          ImagesSoFar < MaxFamilyEvents /\ MoodImage("c1", d)
    \/ \E d \in {None, DefaultElder} :
          RoutinesSoFar < MaxFamilyEvents /\ RoutineAcknowledge("c1", d, "r1")
    \/ \E t \in inflight : ChatReplySettles(t, "text")
    \/ \E t \in inflight : WelcomeSettles(t, "text", FALSE)
    \/ \E t \in inflight : ImageSettles(t, DistressedReply)
    \/ \E t \in inflight : RoutineSettles(t, "text")

SpecFamily == Init /\ [][NextFamily]_vars

FamilyEventNames == {"elder:risk-alert", "elder:mood-alert", "routine:completed"}

\* the stored state of an elder changes in the step
Touched(e) ==
    \/ historyAfter(e) # getConversationHistory(e)
    \/ activeSessions'[e] # activeSessions[e]
    \/ onlineElders'[e] # onlineElders[e]
    \/ elderRoom'[e] # elderRoom[e]
    \/ familyRoom'[e] # familyRoom[e]
    \/ { t \in timers' : t.elderId = e } # { t \in timers : t.elderId = e }
    \/ { t \in inflight' : t.elderId = e } # { t \in inflight : t.elderId = e }

\* the elders a step is about: those whose state it changes and those whose
\* rooms it emits to
StepElders ==
    { e \in Elders : Touched(e) }
    \cup { NewEvents[k].to.id : k \in { i \in DOMAIN NewEvents : NewEvents[i].to.kind # "socket" } }

\* C29: a risk-alert, mood-alert or routine:completed event about elder e is
\* emitted to room family:e and reaches only sockets that issued family:join
\* for e (a socket enters a family room by that handler only).  Every step
\* is about one elder: it changes the stored state of at most one elder and
\* emits to the rooms of that elder or to a single socket, so that what a
\* socket outside e's rooms receives is not changed by a step about e.
C29_FamilyRoomIsolation ==
    [][ /\ \A k \in DOMAIN NewEvents :
              NewEvents[k].ev \in FamilyEventNames =>
                  /\ NewEvents[k].to = ToFamily(NewEvents[k].payload.elderId)
                  /\ NewEvents[k].rcpt \subseteq familyRoom[NewEvents[k].payload.elderId]
        /\ \A e \in Elders : \A c \in familyRoom'[e] \ familyRoom[e] : FamilyJoin(c, e)
        /\ Cardinality(StepElders) <= 1
        /\ \A k \in DOMAIN NewEvents : \A c \in NewEvents[k].rcpt :
              \/ NewEvents[k].to = ToSocket(c)
              \/ \E e \in StepElders : c \in familyRoom[e] \cup elderRoom[e]
      ]_vars

\* the family socket observes one elder and received that elder's alerts
\* and routine completion, while the alerts about the other elder reached
\* nobody, the elder's own socket included
C29_Witness ==
    \E e \in Elders, x \in Elders :
        /\ e # x
        /\ familyRoom[e] = {"c2"}
        /\ familyRoom[x] = {}
        /\ "c1" \in elderRoom["e1"]
        /\ \A n \in FamilyEventNames :
              \E i \in DOMAIN emitted :
                  /\ emitted[i].ev = n
                  /\ emitted[i].payload.elderId = e
                  /\ emitted[i].rcpt = {"c2"}
        /\ \E i, j \in DOMAIN emitted :
              /\ emitted[i].ev = "elder:risk-alert" /\ emitted[j].ev = "elder:mood-alert"
              /\ emitted[i].payload.elderId = x /\ emitted[j].payload.elderId = x
              /\ emitted[i].rcpt = {} /\ emitted[j].rcpt = {}

(***************************************************************************)
(* The level 'monitor' (risk-assessor.ts)                                  *)
(***************************************************************************)
\* the weights the scoring can add: riskScore += 50 per match, += 30 once
ReachableRemainders == {0, NegativeWeight % CriticalWeight}

\* C30: assessRisk never returns the level monitor: for every message window
\* the total weight is a multiple of 50, or a multiple of 50 plus 30, so the
\* level is one of safe, high, critical.
C30_NeverMonitor ==
    /\ riskScore(window) % CriticalWeight \in ReachableRemainders
    /\ ~(riskScore(window) >= 10 /\ riskScore(window) < 30)
    /\ risk.level \in {"safe", "high", "critical"}
    /\ assessRisk(window).level # "monitor"

\* one critical match and three negative messages: the weight is 50 plus 30
C30_Witness ==
    /\ negativeCount(userMessagesOf(recentOf(window))) >= NegativeThreshold
    /\ riskScore(window) = CriticalWeight + NegativeWeight
    /\ risk.level = "critical"

====
